---- MODULE Spec2Model ----
(***************************************************************************)
(* Request-dispatch pipeline of lieko-express (src/lieko-express.js).      *)
(*                                                                         *)
(* One behaviour of the model is one request served by one application.    *)
(* The registry (middlewares, errorHandlers, notFoundHandler, corsOptions, *)
(* bodyParserOptions) and the request are drawn in Init; the code of the   *)
(* user's functions (middleware, route handler, error handler, not-found   *)
(* handler) is a script of operations drawn when the function is invoked.  *)
(* Every action is one run-to-completion job of the JavaScript event loop: *)
(* the synchronous code between two suspension points.                     *)
(*                                                                         *)
(* SpecReg starts from a new application instead: a startup script of      *)
(* registration calls (get/post/../all, use, group) builds this.routes and *)
(* this.middlewares, then listen() lets the request in, and a second       *)
(* request follows the first on the same application. SpecIp draws the     *)
(* 'trust proxy' setting, the remote address and the X-Forwarded-For       *)
(* header. SpecCors draws the CORS policy, the method and the Origin.      *)
(* SpecMount mounts a sub-router with its own body-parser options, and     *)
(* SpecOnce serves a request through middleware that calls its             *)
(* continuation more than once.                                            *)
(***************************************************************************)
EXTENDS Integers, Sequences, FiniteSets, TLC

\* ---------------------------------------------------------------- bounds
MaxErrorHandlers == 2      \* error handlers registered: 0..MaxErrorHandlers
MaxGlobal == 2             \* global middleware entries: 0..MaxGlobal
MaxRouteMw == 1            \* middleware of the matched route: 0..MaxRouteMw
MaxChunks == 2             \* 'data' events delivered for one request body

\* ------------------------------------------------------- program constants
DefaultLimit == 1048576    \* _parseLimit: fallback when the label does not parse
KB == 1024
MB == 1048576

Null == "null"

\* strings the code slices are sequences of one-character strings
Slash == <<"/">>
UrlA == <<"/", "a">>
UrlB == <<"/", "b">>
Urls == {UrlA, UrlB}

StartsWith(s, p) ==
  /\ Len(p) <= Len(s)
  /\ SubSeq(s, 1, Len(p)) = p

\* url.substring(n)
Substring(s, n) == SubSeq(s, n + 1, Len(s))

\* origins and policy entries are strings, kept as sequences of letters (each
\* element stands for one letter or one run of letters that the strings of the
\* model share whole)
NoOrigin == <<>>
Good == <<"https://", "good", ".", "com">>
Evil == <<"https://", "evil", ".", "com">>
Other == <<"https://", "other", ".", "com">>
Star == <<"*">>
Wild == <<"https://", "*", ".", "example", ".", "com">>
Api == <<"https://", "api", ".", "example", ".", "com">>
Bare == <<"https://", "example", ".", "com">>
Undotted == <<"https://", "api", "x", "example", ".", "com">>

BodylessMethods == {"GET", "DELETE", "HEAD"}
Methods == {"GET", "POST", "OPTIONS"}

\* ------------------------------------------------------------------ state
VARIABLES
  middlewares,        \* this.middlewares: sequence of [path, handler]
  errorHandlers,      \* this.errorHandlers: sequence of handler names
  notFoundHandler,    \* this.notFoundHandler: Null or a handler name
  corsOptions,        \* this.corsOptions
  bodyParserOptions,  \* this.bodyParserOptions
  routes,             \* this.routes: the routes in registration order
  groupStack,         \* this.groupStack: the frames of the group() calls under way
  router,             \* the sub-router of the startup script: routes, middlewares, options
  settings,           \* this.settings: 'trust proxy', allowTrailingSlash
  program,            \* the registration calls the startup script has yet to make
  thrown,             \* the message of the error that ended the startup script, or ""
  req,                \* the request: method, url, origin, contentType, text, body, _bodySize
  route,              \* the result of _findRoute for this request, or Null
  res,                \* the response: flags, statusCode, headers, writes
  parse,              \* _parseBody's closure: size, limitExceeded, promise
  pc,                 \* position of _handleRequest
  pos,                \* the entry the walk is waiting on: [stage, i]
  wp,                 \* the promise the walk awaits: [step, state, err]
  chains,             \* the _runErrorHandlers calls of this request
  tasks,              \* user functions suspended at an await
  requrl,             \* req.url as the running middleware sees it
  log,                \* history: entries invoked, in order
  ehLog,              \* history: error handlers invoked, with the error received
  ehCont,             \* history: continuation calls made by error handlers
  contErr,            \* history: entries that called next(err), with the log length then
  delivered,          \* history: errors passed to _runErrorHandlers
  raised,             \* history: errors thrown by entries, and whether the walk took them
  caught,             \* history: errors that reached the catch of _handleRequest
  late,               \* history: body-producing operations executed after the response was sent
  unhandled,          \* history: a promise rejected with nobody listening
  call,               \* the response method a handler is calling: [name, depth, outcome]
  validation,         \* the validate(schema) middleware: [schema, body, next, errors, threw]
  served              \* the number of requests the server has finished with

vars == <<middlewares, errorHandlers, notFoundHandler, corsOptions, bodyParserOptions,
          routes, groupStack, router, settings, program, thrown, req, route, res, parse, pc, pos, wp, chains, tasks, requrl,
          log, ehLog, ehCont, contErr, delivered, raised, caught, late, unhandled, call, validation,
          served>>

\* the state of the helper methods and the count of finished requests, which
\* the pipeline of a request and the registration calls leave alone
helpers == <<call, validation, served>>

registry == <<middlewares, errorHandlers, notFoundHandler, corsOptions, bodyParserOptions,
              routes, groupStack, router, settings, program, thrown>>

\* ---------------------------------------------------------------- errors
Err(code, src) == [code |-> code, src |-> src]
HeadersSentErr == Err("ERR_HTTP_HEADERS_SENT", <<"node", 0>>)
TooLargeErr == Err("PAYLOAD_TOO_LARGE", <<"body", 0>>)
StrictErr == Err("STRICT_MODE", <<"body", 0>>)
BoundaryErr == Err("MISSING_BOUNDARY", <<"body", 0>>)
\* the error a user function throws or passes to its continuation
UserErr(ent) == Err("USER", ent)
NoErr == Err("none", <<"none", 0>>)

\* ------------------------------------------------------ user function code
\* A script is what one call of a user function does, in order:
\*   "json"    res.json / res.send / res.status(c).json (guarded by responseSent)
\*   "end"     res.end(body) on the transport (no guard)
\*   "next"    the continuation, no argument
\*   "nextErr" the continuation with an error
\*   "throw"   throw (a rejection when the function is async)
\*   "await"   suspension on I/O
\* async: the function returns a promise, which settles when the script ends.
Script(a, o) == [async |-> a, ops |-> o]

MwScripts ==
  { Script(FALSE, <<"next">>),
    Script(FALSE, <<"nextErr">>),
    Script(FALSE, <<"json">>),
    Script(FALSE, <<"throw">>),
    Script(FALSE, <<"next", "throw">>),
    Script(TRUE, <<"await", "next">>),
    Script(TRUE, <<"await", "throw">>),
    Script(TRUE, <<"next", "await", "json">>) }

\* middleware that calls its continuation twice, at once or after an await,
\* or calls it and returns a promise that completes later
RepeatScripts ==
  { Script(FALSE, <<"next", "next">>),
    Script(TRUE, <<"next", "await", "next">>),
    Script(TRUE, <<"next", "await">>) }

HandlerScripts ==
  { Script(FALSE, <<"json">>),
    Script(FALSE, <<"end">>),
    Script(FALSE, <<"throw">>),
    Script(FALSE, <<"json", "throw">>),
    Script(TRUE, <<"await", "json">>),
    Script(TRUE, <<"await", "throw">>) }

EhScripts ==
  { Script(FALSE, <<"json">>),
    Script(FALSE, <<"next">>),
    Script(FALSE, <<"nextErr">>),
    Script(FALSE, <<"throw">>),
    Script(TRUE, <<"await", "json">>) }

NfScripts ==
  { Script(FALSE, <<"json">>),
    Script(FALSE, <<"throw">>) }

\* what each error handler does when called in the current job
Oracles == [1..Len(errorHandlers) -> EhScripts]
SomeOracle == [i \in 1..Len(errorHandlers) |-> Script(FALSE, <<"json">>)]

\* the oracles to draw from for a job that runs ops: one is enough when the
\* job cannot reach an error handler
OraclesFor(ops, always) ==
  IF always \/ \E i \in 1..Len(ops) : ops[i] \in {"next", "nextErr"}
    THEN Oracles
    ELSE {SomeOracle}


\* ------------------------------------------------- the machine of one job
\* The fields a job reads and writes, gathered so that nested calls
\* (a continuation called from inside a user function) can be composed.
Cur ==
  [res |-> res, wp |-> wp, chains |-> chains, tasks |-> tasks, requrl |-> requrl,
   log |-> log, ehLog |-> ehLog, ehCont |-> ehCont, contErr |-> contErr,
   delivered |-> delivered, raised |-> raised, caught |-> caught,
   late |-> late, unhandled |-> unhandled]

Install(M) ==
  /\ res' = M.res
  /\ wp' = M.wp
  /\ chains' = M.chains
  /\ tasks' = M.tasks
  /\ requrl' = M.requrl
  /\ log' = M.log
  /\ ehLog' = M.ehLog
  /\ ehCont' = M.ehCont
  /\ contErr' = M.contErr
  /\ delivered' = M.delivered
  /\ raised' = M.raised
  /\ caught' = M.caught
  /\ late' = M.late
  /\ unhandled' = M.unhandled

\* ---------------------------------------------------------------- response
\* who wrote: an entry (<<"g", i>>, <<"r", i>>, <<"h", 0>>, <<"nf", 0>>, <<"eh", i>>)
\* or the framework (these tags)
Cors403 == <<"cors403", 0>>
Cors204 == <<"cors204", 0>>
TooLarge413 == <<"413", 0>>
Default500 == <<"default500", 0>>
Default404 == <<"default404", 0>>

\* a JSON body: whether it has `success: false`, whether `error` is an object,
\* the error text or code it carries, and whether it has `message`
Body(kind, success, errorIsObject, error, code, message) ==
  [kind |-> kind, success |-> success, errorIsObject |-> errorIsObject,
   error |-> error, code |-> code, message |-> message]
EmptyBody == Body("empty", "", FALSE, "", "", FALSE)
UserBody == Body("user", "", FALSE, "", "", FALSE)

\* the bodies the framework writes itself
BodyOf(by) ==
  IF by = Cors403 THEN Body("json", "false", FALSE, "Origin Forbidden", "", TRUE)
  ELSE IF by = Cors204 THEN EmptyBody
  ELSE IF by = TooLarge413 THEN Body("json", "false", FALSE, "Payload Too Large", "", TRUE)
  ELSE IF by = Default500 THEN Body("json", "false", FALSE, "Internal Server Error", "", TRUE)
  ELSE IF by = Default404 THEN Body("json", "", FALSE, "Route not found", "", FALSE)
  ELSE UserBody

Write(status, by) == [status |-> status, by |-> by, body |-> BodyOf(by)]

\* res.status(code).json(data) / res.send(data): guarded by the closure flag
\* responseSent; writeHead throws once the transport has sent its headers.
Json(M, status, by) ==
  IF M.res.responseSent
    THEN [m |-> [M EXCEPT !.res.statusCode = status], threw |-> FALSE]
  ELSE IF M.res.headersSent
    THEN [m |-> [M EXCEPT !.res.statusCode = status, !.late = @ \cup {by}], threw |-> TRUE]
  ELSE [m |-> [M EXCEPT !.res.statusCode = status,
                        !.res.headersSent = TRUE,
                        !.res.responseSent = TRUE,
                        !.res.writes = Append(@, Write(status, by))],
        threw |-> FALSE]

\* res.end(body): the wrapper calls the transport's end with no guard; the
\* transport writes nothing once it has finished. responseSent is not touched.
End(M, by) ==
  IF M.res.headersSent
    THEN [M EXCEPT !.late = @ \cup {by}]
  ELSE [M EXCEPT !.res.headersSent = TRUE,
                 !.res.writes = Append(@, Write(M.res.statusCode, by))]

\* -------------------------------------------------------------------- CORS
\* opts.origin is a scalar or an array: [arr, list]
Origin(arr, list) == [arr |-> arr, list |-> list]

\* regex.test(origin) for the expression "^" + entry with '.' escaped and '*'
\* replaced by '.*' + "$"
RECURSIVE RegexTest(_, _)
RegexTest(entry, origin) ==
  IF entry = <<>> THEN origin = <<>>
  ELSE IF Head(entry) = "*"
    THEN \E k \in 0..Len(origin) : RegexTest(Tail(entry), SubSeq(origin, k + 1, Len(origin)))
  ELSE /\ origin # <<>>
       /\ Head(origin) = Head(entry)
       /\ RegexTest(Tail(entry), Tail(origin))

\* the same expression without the escape of '.': a dot stands for any letter
RECURSIVE RegexTestUnescaped(_, _)
RegexTestUnescaped(entry, origin) ==
  IF entry = <<>> THEN origin = <<>>
  ELSE IF Head(entry) = "*"
    THEN \E k \in 0..Len(origin) :
           RegexTestUnescaped(Tail(entry), SubSeq(origin, k + 1, Len(origin)))
  ELSE /\ origin # <<>>
       /\ Head(entry) = "." \/ Head(origin) = Head(entry)
       /\ RegexTestUnescaped(Tail(entry), Tail(origin))

Includes(str, letter) == \E k \in 1..Len(str) : str[k] = letter

\* _matchOrigin with the dots of a wildcard entry left unescaped
MatchOneUnescaped(origin, allowed) ==
  IF origin = NoOrigin \/ allowed = <<>> THEN FALSE
  ELSE IF allowed = Star THEN TRUE
  ELSE IF Includes(allowed, "*") THEN RegexTestUnescaped(allowed, origin)
  ELSE origin = allowed

\* _matchOrigin against one scalar entry
MatchOne(origin, allowed) ==
  IF origin = NoOrigin \/ allowed = <<>> THEN FALSE
  ELSE IF allowed = Star THEN TRUE
  ELSE IF Includes(allowed, "*") THEN RegexTest(allowed, origin)
  ELSE origin = allowed

MatchOrigin(origin, allowedOrigin) ==
  \E i \in 1..Len(allowedOrigin.list) : MatchOne(origin, allowedOrigin.list[i])

\* the Access-Control-Allow-Origin value
FinalOrigin(origin, o) ==
  IF ~o.arr /\ o.list[1] = Star THEN Star
  ELSE IF o.arr
    THEN IF \E i \in 1..Len(o.list) : MatchOne(origin, o.list[i])
           THEN o.list[CHOOSE i \in 1..Len(o.list) :
                         /\ MatchOne(origin, o.list[i])
                         /\ \A j \in 1..(i - 1) : ~MatchOne(origin, o.list[j])]
           ELSE o.list[1]
  ELSE IF MatchOne(origin, o.list[1]) THEN origin ELSE o.list[1]

\* the request is refused by the strict-origin check
OriginForbidden(rq, opts) ==
  /\ opts.strictOrigin
  /\ rq.origin # NoOrigin
  /\ ~MatchOrigin(rq.origin, opts.origin)

\* _applyCors without its preflight branch: an OPTIONS request only gets the
\* origin headers
ApplyCorsNoPreflight(rq, r, opts) ==
  IF ~opts.enabled THEN r
  ELSE IF OriginForbidden(rq, opts)
    THEN [r EXCEPT !.statusCode = 403,
                   !.headersSent = TRUE,
                   !.writes = Append(@, Write(403, Cors403))]
  ELSE [r EXCEPT !.headers = @ \cup {<<"Access-Control-Allow-Origin",
                                       FinalOrigin(rq.origin, opts.origin)>>}]

\* _applyCors(req, res, opts) on the response r
ApplyCors(rq, r, opts) ==
  IF ~opts.enabled THEN r
  ELSE IF OriginForbidden(rq, opts)
    THEN [r EXCEPT !.statusCode = 403,
                   !.headersSent = TRUE,
                   !.writes = Append(@, Write(403, Cors403))]
  ELSE LET h1 == r.headers \cup {<<"Access-Control-Allow-Origin", FinalOrigin(rq.origin, opts.origin)>>}
           h2 == IF opts.credentials
                   THEN h1 \cup {<<"Access-Control-Allow-Credentials", "true">>}
                   ELSE h1
       IN IF rq.method = "OPTIONS"
            THEN [r EXCEPT !.headers = h2 \cup {<<"Access-Control-Allow-Methods", "methods">>,
                                                <<"Access-Control-Allow-Headers", "headers">>,
                                                <<"Access-Control-Max-Age", "maxAge">>},
                           !.statusCode = 204,
                           !.headersSent = TRUE,
                           !.writes = Append(@, Write(204, Cors204))]
            ELSE [r EXCEPT !.headers = h2]

\* ------------------------------------------------------------- body limits
\* a limit option is [n, unit]: unit "num" is a number of bytes, "b"/"kb"/"mb" a
\* label such as '1mb', and "junk" a string the pattern does not match
Label(n, u) == [n |-> n, unit |-> u]

Multiplier(u) ==
  CASE u = "b" -> 1
    [] u = "kb" -> KB
    [] u = "mb" -> MB

\* _parseLimit
ParseLimit(l) ==
  IF l.unit = "num" THEN l.n
  ELSE IF l.unit \in {"b", "kb", "mb"} THEN l.n * Multiplier(l.unit)
  ELSE DefaultLimit

\* contentType.includes(kind), over the content types of the model
IsJson(ct) == ct \in {"application/json", "application/json; charset=utf-8"}
IsUrlencoded(ct) == ct = "application/x-www-form-urlencoded"
IsMultipart(ct) == ct \in {"multipart/form-data", "multipart/form-data; boundary=x"}
HasBoundary(ct) == ct = "multipart/form-data; boundary=x"

\* detectLimit in _parseBody
DetectLimit(contentType, options) ==
  IF IsJson(contentType) THEN ParseLimit(options.json.limit)
  ELSE IF IsUrlencoded(contentType) THEN ParseLimit(options.urlencoded.limit)
  ELSE IF IsMultipart(contentType) THEN ParseLimit(options.multipart.limit)
  ELSE ParseLimit(Label(1, "mb"))

\* the options _handleRequest hands to _parseBody: route ? route.bodyParserOptions : null,
\* then routeOptions || this.bodyParserOptions
BodyOptions ==
  IF route.found /\ route.bodyParserOptions # <<>>
    THEN route.bodyParserOptions[1]
    ELSE bodyParserOptions

Limit == DetectLimit(req.contentType, BodyOptions)


\* -------------------------------------------------------- promises, tasks
\* resolve() / reject() of the promise the walk awaits; a promise settles once,
\* and a continuation kept by an entry of an earlier step settles nothing
Resolve(M, step) ==
  IF M.wp.step = step /\ M.wp.state = "pending"
    THEN [M EXCEPT !.wp.state = "resolved"]
    ELSE M

Reject(M, step, e) ==
  IF M.wp.step = step /\ M.wp.state = "pending"
    THEN [M EXCEPT !.wp.state = "rejected", !.wp.err = e]
    ELSE M

\* one call of _runErrorHandlers: the error, the index of runNext, who awaits it
\* (ctx), and the state of the promise of the first runNext()
Chain(e, idx, ctx, state, rej) ==
  [err |-> e, idx |-> idx, ctx |-> ctx, state |-> state, rej |-> rej]
Ctx(kind, step) == [kind |-> kind, step |-> step]

\* reject(nextErr) / reject(e) in runNext; live: the caller's promise is the one
\* the chain still waits on
ChainReject(M, c, live, e) ==
  IF live /\ M.chains[c].state = "running"
    THEN [M EXCEPT !.chains[c].state = "rejected", !.chains[c].rej = e]
    ELSE M

\* runNext found no handler left: its promise resolves with nothing sent
ChainExhausted(M, c, live) ==
  IF live /\ M.chains[c].state = "running"
    THEN [M EXCEPT !.chains[c].state = "resolved"]
    ELSE M

\* the status a user function of this kind sends
StatusOf(T) ==
  CASE T.kind = "eh" -> 500
    [] T.kind = "nf" -> 404
    [] OTHER -> 200

\* a user function running: kind, the entry it is, the walk step that invoked it,
\* the chain it serves (error handlers), its remaining operations, and the
\* req.url its continuation restores (currentUrl)
Task(kind, ent, step, chain, live, script, saved) ==
  [kind |-> kind, ent |-> ent, step |-> step, chain |-> chain, live |-> live,
   called |-> FALSE, async |-> script.async, ops |-> script.ops, saved |-> saved]

\* the user function T reaches an await on I/O: it is parked with the rest of
\* its code
Suspend(M, T) == [M EXCEPT !.tasks = @ \cup {T}]

\* an exception leaves the user function T
Throw(M, T, e) ==
  IF T.kind \in {"mw", "handler"}
    THEN \* the executor's reject, result.catch(reject), or the await of route.handler
         Reject([M EXCEPT !.raised = @ \cup
                   {[err |-> e, by |-> T.ent,
                     taken |-> (M.wp.step = T.step /\ M.wp.state = "pending")]}],
                T.step, e)
  ELSE IF T.kind = "nf"
    THEN IF T.async THEN [M EXCEPT !.unhandled = TRUE] ELSE Reject(M, T.step, e)
  ELSE \* an error handler: try/catch around the call in runNext
       IF T.async THEN [M EXCEPT !.unhandled = TRUE]
       ELSE ChainReject(M, T.chain, T.live, e)

\* the user function T returned
Return(M, T) ==
  IF T.kind \in {"handler", "nf"} \/ (T.kind = "mw" /\ T.async)
    THEN Resolve(M, T.step)
    ELSE M

RECURSIVE Exec(_, _, _)
RECURSIVE RunNext(_, _, _, _)

\* runNext of chain c: take errorHandlers[index++] and call it
RunNext(M, c, live, O) ==
  LET i == M.chains[c].idx + 1
      M1 == [M EXCEPT !.chains[c].idx = i]
  IN IF i > Len(errorHandlers)
       THEN ChainExhausted(M1, c, live)
       ELSE Exec([M1 EXCEPT !.ehLog = Append(@, [h |-> i, err |-> M.chains[c].err, chain |-> c])],
                 Task("eh", <<"eh", i>>, 0, c, live, O[i], M.requrl),
                 O)

\* _runErrorHandlers(err, req, res), up to its first suspension
RunErrorHandlers(M, e, ctx, O) ==
  LET c == Len(M.chains) + 1
      M0 == [M EXCEPT !.delivered = @ \cup {e}]
  IN IF Len(errorHandlers) = 0
       THEN LET r == Json(M0, 500, Default500)
            IN [r.m EXCEPT !.chains =
                  Append(@, Chain(e, 0, ctx, IF r.threw THEN "threw" ELSE "resolved", NoErr))]
       ELSE RunNext([M0 EXCEPT !.chains = Append(@, Chain(e, 0, ctx, "running", NoErr))],
                    c, TRUE, O)

\* the continuation of a middleware entry: next(err)
MwNext(M, T, withErr, O) ==
  LET M1 == [M EXCEPT !.requrl = T.saved]
  IN IF withErr
       THEN RunErrorHandlers([M1 EXCEPT !.contErr = @ \cup {[ent |-> T.ent, at |-> Len(M.log)]}],
                             UserErr(T.ent), Ctx("mw", T.step), O)
       ELSE Resolve(M1, T.step)

\* the continuation of an error handler: (nextErr) => nextErr ? reject(nextErr) : resolve(runNext())
EhNext(M, T, withErr, O) ==
  LET M1 == [M EXCEPT !.ehCont = @ \cup
               {[h |-> T.ent[2], chain |-> T.chain, withErr |-> withErr,
                 arg |-> IF withErr THEN UserErr(T.ent) ELSE NoErr]}]
  IN IF withErr
       THEN ChainReject(M1, T.chain, T.live, UserErr(T.ent))
       ELSE RunNext(M1, T.chain, T.live, O)

\* run the user function T until it returns, throws or suspends
Exec(M, T, O) ==
  IF T.ops = <<>> THEN Return(M, T)
  ELSE
    LET op == Head(T.ops)
        T1 == [T EXCEPT !.ops = Tail(@)]
        T2 == [T1 EXCEPT !.called = TRUE, !.live = FALSE]
    IN CASE op = "await" -> Suspend(M, T1)
         [] op = "json" ->
              LET r == Json(M, StatusOf(T), T.ent)
              IN IF r.threw THEN Throw(r.m, T1, HeadersSentErr) ELSE Exec(r.m, T1, O)
         [] op = "end" -> Exec(End(M, T.ent), T1, O)
         [] op = "throw" -> Throw(M, T1, UserErr(T.ent))
         [] op \in {"next", "nextErr"} ->
              IF T.kind = "mw"
                THEN Exec(MwNext(M, T, op = "nextErr", O), T2, O)
                ELSE Exec(EhNext(M, T, op = "nextErr", O), T2, O)


\* ------------------------------------------------------------------ paths
\* A path, a pathname and a url are strings kept as sequences of letters: "/"
\* is one letter, and a run of other letters that the strings of the model
\* share whole is one element ("users", ":id", "*", "-old").
ParamNames == {":id"}

EndsWithSlash(s) == Len(s) > 0 /\ s[Len(s)] = "/"

\* s.slice(0, -1)
DropLast(s) == SubSeq(s, 1, Len(s) - 1)

\* p.replace(/\/+/g, '/')
RECURSIVE CollapseSlashes(_)
CollapseSlashes(p) ==
  IF Len(p) < 2 THEN p
  ELSE IF p[1] = "/" /\ p[2] = "/" THEN CollapseSlashes(Tail(p))
  ELSE <<p[1]>> \o CollapseSlashes(Tail(p))

\* the normalisation _addRoute and _pathToRegex apply to a path: collapse the
\* slashes, then strip one trailing slash unless the path is "/"
NormalizePath(path) ==
  LET p == CollapseSlashes(path)
  IN IF p # Slash /\ EndsWithSlash(p) THEN DropLast(p) ELSE p

\* the pathname of a url: the part before the first "?"
RECURSIVE Pathname(_)
Pathname(url) ==
  IF url = <<>> \/ Head(url) = "?" THEN <<>>
  ELSE <<Head(url)>> \o Pathname(Tail(url))

\* this.settings after construction
Trust(kind, list) == [kind |-> kind, list |-> list]
DefaultSettings == [trustProxy |-> Trust("false", <<>>), allowTrailingSlash |-> TRUE]

\* _pathToRegex: the compiled pattern is the normalised path p, read as
\* ^p$ with ":name" as [^/]+ and "*" as .*, with /? appended when optSlash;
\* the path "/" compiles to ^\/?$
PathToRegex(path, st) ==
  LET p == NormalizePath(path)
      isStatic == (\A i \in 1..Len(p) : p[i] \notin ParamNames /\ p[i] # "*") /\ p # Slash
  IN [p |-> p, root |-> p = Slash, optSlash |-> isStatic /\ st.allowTrailingSlash # FALSE]

\* ^pat$ tested on s. The path is pasted into the expression as it is, so a
\* "+" after a letter of the path is the quantifier of that letter.
RECURSIVE PatternTest(_, _)
PatternTest(pat, s) ==
  IF pat = <<>> THEN s = <<>>
  ELSE IF Head(pat) = "*"
    THEN \E k \in 0..Len(s) : PatternTest(Tail(pat), SubSeq(s, k + 1, Len(s)))
  ELSE IF Head(pat) \in ParamNames
    THEN \E k \in 1..Len(s) :
           /\ \A j \in 1..k : s[j] # "/"
           /\ PatternTest(Tail(pat), SubSeq(s, k + 1, Len(s)))
  ELSE IF Len(pat) >= 2 /\ pat[2] = "+"
    THEN \E k \in 1..Len(s) :
           /\ \A j \in 1..k : s[j] = Head(pat)
           /\ PatternTest(Tail(Tail(pat)), SubSeq(s, k + 1, Len(s)))
  ELSE s # <<>> /\ Head(s) = Head(pat) /\ PatternTest(Tail(pat), Tail(s))

\* pathname.match(route.pattern) is not null
Match(pattern, s) ==
  IF pattern.root THEN s = <<>> \/ s = Slash
  ELSE \/ PatternTest(pattern.p, s)
       \/ pattern.optSlash /\ EndsWithSlash(s) /\ PatternTest(pattern.p, DropLast(s))

\* the letters of s from position i up to the next "/"
RECURSIVE Segment(_, _)
Segment(s, i) ==
  IF i > Len(s) \/ s[i] = "/" THEN <<>> ELSE <<s[i]>> \o Segment(s, i + 1)

\* match.groups || {}: the named group of each parameter of the pattern. A
\* parameter of the model's paths follows a prefix of literal letters and is
\* followed by "/" or the end, so its group is the whole segment at its place.
Groups(pattern, s) ==
  { <<pattern.p[i], Segment(s, i)>> :
      i \in { j \in 1..Len(pattern.p) : pattern.p[j] \in ParamNames } }

\* ---------------------------------------------------------------- lookup
NoCors == [kind |-> "undefined", opts |-> <<>>]

\* the result of _findRoute when it returns null
NoRoute ==
  [found |-> FALSE, method |-> "", path |-> <<>>, middlewares |-> <<>>,
   handler |-> <<"h", 0>>, cors |-> NoCors, bodyParserOptions |-> <<>>,
   params |-> {}, matchedPath |-> <<>>, wasTrailingSlash |-> FALSE]

\* {...route, params, matchedPath, wasTrailingSlash}
Matched(r, params, matchedPath, wasTrailingSlash) ==
  [found |-> TRUE, method |-> r.method, path |-> r.path, middlewares |-> r.middlewares,
   handler |-> r.handler, cors |-> r.cors, bodyParserOptions |-> r.bodyParserOptions,
   params |-> params, matchedPath |-> matchedPath, wasTrailingSlash |-> wasTrailingSlash]

MethodMatches(r, method) == r.method = method \/ r.method = "ALL"

\* the first loop of _findRoute, from the i-th route on: the index of the
\* route returned, 0 when the loop ends
RECURSIVE FirstLoop(_, _, _, _)
FirstLoop(rs, i, method, pathname) ==
  IF i > Len(rs) THEN 0
  ELSE IF MethodMatches(rs[i], method) /\ Match(rs[i].pattern, pathname) THEN i
  ELSE FirstLoop(rs, i + 1, method, pathname)

\* the second loop of _findRoute, over the pathname without its trailing slash
RECURSIVE SecondLoop(_, _, _, _)
SecondLoop(rs, i, method, cleanPath) ==
  IF i > Len(rs) THEN 0
  ELSE IF /\ MethodMatches(rs[i], method)
          /\ rs[i].path = cleanPath
          /\ rs[i].allowTrailingSlash # FALSE
          /\ Match(rs[i].pattern, cleanPath) THEN i
  ELSE SecondLoop(rs, i + 1, method, cleanPath)

\* FindRoute taking the last matching route instead of the first
FindRouteLast(rs, method, pathname) ==
  LET hits == { i \in 1..Len(rs) : MethodMatches(rs[i], method) /\ Match(rs[i].pattern, pathname) }
  IN IF hits = {} THEN NoRoute
     ELSE LET i == CHOOSE j \in hits : \A k \in hits : k <= j
          IN Matched(rs[i], Groups(rs[i].pattern, pathname), pathname, FALSE)

\* _findRoute
FindRoute(rs, method, pathname) ==
  LET i == FirstLoop(rs, 1, method, pathname)
      cleanPath == DropLast(pathname)
      j == IF EndsWithSlash(pathname) /\ Len(pathname) > 1
             THEN SecondLoop(rs, 1, method, cleanPath) ELSE 0
  IN IF i # 0 THEN Matched(rs[i], Groups(rs[i].pattern, pathname), pathname, FALSE)
     ELSE IF j # 0 THEN Matched(rs[j], Groups(rs[j].pattern, cleanPath), cleanPath, TRUE)
     ELSE NoRoute

\* ------------------------------------------------------------ registration
\* The arguments of a registration call are values: a string s, a function
\* named f, an options object named f (its first element is "opts"), or the
\* sub-router.
Str(s) == [t |-> "string", s |-> s, f |-> <<"none", 0>>, list |-> <<>>]
Fn(f) == [t |-> "function", s |-> <<>>, f |-> f, list |-> <<>>]
Opts(k) == [t |-> "object", s |-> <<>>, f |-> <<"opts", k>>, list |-> <<>>]
RouterArg == [t |-> "router", s |-> <<>>, f |-> <<"router", 0>>, list |-> <<>>]
\* an array of path strings
Arr(ps) == [t |-> "array", s |-> <<>>, f |-> <<"none", 0>>, list |-> ps]

\* the path of a middleware entry: null or a string
NullPath == [isNull |-> TRUE, s |-> <<>>]
Path(s) == [isNull |-> FALSE, s |-> s]

\* the lists a registration call works on, and the message of the error it threw
App(rs, ms) ==
  [routes |-> rs, middlewares |-> ms, errorHandlers |-> <<>>, groupStack |-> <<>>,
   router |-> <<>>, threw |-> ""]
Raise(A, msg) == [A EXCEPT !.threw = msg]

\* Functions giving the functions last to first
FunctionsReversed(vs) ==
  LET fs == SelectSeq(vs, LAMBDA v : v.t = "function")
  IN [i \in 1..Len(fs) |-> fs[Len(fs) + 1 - i]]

\* list.filter(fn => typeof fn === "function")
Functions(vs) == SelectSeq(vs, LAMBDA v : v.t = "function")

\* this.middlewares.push({ path, handler }) for each function of vs
PushAll(A, path, vs) ==
  [A EXCEPT !.middlewares =
     @ \o [i \in 1..Len(Functions(vs)) |-> [path |-> path, handler |-> Functions(vs)[i].f]]]

\* the route pushed for the path p
NewRoute(st, method, p, handlers) ==
  [method |-> method, path |-> p, handler |-> handlers[Len(handlers)].f,
   middlewares |-> [i \in 1..(Len(handlers) - 1) |-> handlers[i].f],
   pattern |-> PathToRegex(p, st),
   allowTrailingSlash |-> st.allowTrailingSlash,
   cors |-> NoCors, bodyParserOptions |-> <<>>, groupChain |-> <<>>]

\* AddPath pushing the route without looking for its identity in the list
AddPathAlways(A, st, method, original, handlers) ==
  [A EXCEPT !.routes = Append(@, [NewRoute(st, method, NormalizePath(original), handlers)
                                    EXCEPT !.groupChain = A.groupStack])]

\* the body of paths.forEach in _addRoute: normalise, skip a route whose
\* method, path and handler are already in the list, push otherwise
AddPath(A, st, method, original, handlers) ==
  LET p == NormalizePath(original)
      finalHandler == handlers[Len(handlers)].f
      exists == \E i \in 1..Len(A.routes) :
                  /\ A.routes[i].method = method
                  /\ A.routes[i].path = p
                  /\ A.routes[i].handler = finalHandler
  IN IF exists THEN A
     ELSE [A EXCEPT !.routes = Append(@, [NewRoute(st, method, p, handlers)
                                         EXCEPT !.groupChain = A.groupStack])]

RECURSIVE AddPaths(_, _, _, _, _)
AddPaths(A, st, method, paths, handlers) ==
  IF paths = <<>> THEN A
  ELSE AddPaths(AddPath(A, st, method, Head(paths), handlers), st, method, Tail(paths), handlers)

\* _addRoute(method, path, ...handlers): path is a string or an array of
\* strings
AddRoute(A, st, method, path, handlers) ==
  IF handlers = <<>> THEN Raise(A, "Route handler is required")
  ELSE AddPaths(A, st, method, IF path.t = "array" THEN path.list ELSE <<path.s>>, handlers)

MethodOf(op) ==
  CASE op = "get" -> "GET"
    [] op = "post" -> "POST"
    [] op = "put" -> "PUT"
    [] op = "patch" -> "PATCH"
    [] op = "delete" -> "DELETE"
    [] op = "all" -> "ALL"

RouteOps == {"get", "post", "put", "patch", "delete", "all"}

\* get(...args), post(path, ...handlers), .., all(path, ...handlers): get
\* with one string that does not start with "/" reads a setting
RouteCall(A, st, op, args) ==
  IF op = "get" /\ Len(args) = 1 /\ args[1].t = "string" /\ ~StartsWith(args[1].s, Slash)
    THEN A
  ELSE IF args = <<>> THEN AddRoute(A, st, MethodOf(op), Str(<<>>), <<>>)
  ELSE AddRoute(A, st, MethodOf(op), args[1], Tail(args))

\* MountRouter splicing the routes of the router and not its middleware
MountRoutesOnly(A, st, basePath, R) ==
  LET base == IF EndsWithSlash(basePath) THEN DropLast(basePath) ELSE basePath
      fullPath(r) == IF r.path = <<>> THEN base ELSE base \o r.path
  IN [A EXCEPT
        !.router = [R EXCEPT !.groupStack = A.groupStack],
        !.routes = @ \o [i \in 1..Len(R.routes) |->
                      [R.routes[i] EXCEPT !.path = fullPath(R.routes[i]),
                                          !.pattern = PathToRegex(fullPath(R.routes[i]), st),
                                          !.groupChain = A.groupStack \o @,
                                          !.bodyParserOptions = <<R.bodyParserOptions>>]]]

\* _mountRouter(basePath, router)
MountRouter(A, st, basePath, R) ==
  LET base == IF EndsWithSlash(basePath) THEN DropLast(basePath) ELSE basePath
      fullPath(r) == IF r.path = <<>> THEN base ELSE base \o r.path
      mwPath(mw) == IF base = <<>> THEN mw.path
                    ELSE IF ~mw.path.isNull /\ mw.path.s # <<>> THEN Path(base \o mw.path.s)
                    ELSE Path(base)
  IN [A EXCEPT
        !.router = [R EXCEPT !.groupStack = A.groupStack],
        !.routes = @ \o [i \in 1..Len(R.routes) |->
                      [R.routes[i] EXCEPT !.path = fullPath(R.routes[i]),
                                          !.pattern = PathToRegex(fullPath(R.routes[i]), st),
                                          !.groupChain = A.groupStack \o @,
                                          !.bodyParserOptions = <<R.bodyParserOptions>>]],
        !.middlewares = @ \o [i \in 1..Len(R.middlewares) |->
                      [path |-> mwPath(R.middlewares[i]),
                       handler |-> R.middlewares[i].handler]]]

\* use(...args)
Use(A, st, R, args) ==
  LET n == Len(args)
  IN IF n = 1 /\ args[1].t = "router" THEN MountRouter(A, st, Slash, R)
     ELSE IF n = 1 /\ args[1].t = "function" THEN PushAll(A, NullPath, args)
     ELSE IF n = 2 /\ args[1].t = "string" /\ args[2].t = "function"
       THEN PushAll(A, Path(args[1].s), <<args[2]>>)
     ELSE IF n = 2 /\ args[1].t = "string" /\ args[2].t = "router"
       THEN MountRouter(A, st, args[1].s, R)
     ELSE IF n = 3 /\ args[1].t = "string" /\ args[2].t = "function" /\ args[3].t = "router"
       THEN MountRouter(PushAll(A, Path(args[1].s), <<args[2]>>), st, args[1].s, R)
     ELSE IF n >= 3 /\ args[1].t = "string" /\ args[n].t = "router"
       THEN MountRouter(PushAll(A, Path(args[1].s), SubSeq(args, 2, n - 1)), st, args[1].s, R)
     ELSE IF n >= 3 /\ args[1].t = "string" /\ Functions(Tail(args)) = Tail(args)
       THEN PushAll(A, Path(args[1].s), Tail(args))
     ELSE Raise(A, "Invalid use() arguments")

\* p.replace(/\/+$/, '')
RECURSIVE StripSlashes(_)
StripSlashes(p) == IF EndsWithSlash(p) THEN StripSlashes(DropLast(p)) ELSE p

\* a call of a registration method: its name, its arguments, and for group
\* the calls its callback makes on the proxy
Call(op, args, body) == [op |-> op, args |-> args, body |-> body]

RECURSIVE Group(_, _, _, _, _)
RECURSIVE RunBody(_, _, _, _, _, _)

\* callback(subApp): the calls of the callback on the proxy, one after the
\* other until one throws
RunBody(A, st, R, fullBase, mws, body) ==
  IF body = <<>> \/ A.threw # "" THEN A
  ELSE LET c == Head(body)
           first == c.args[1]
           A1 == IF c.op \in RouteOps
                   THEN RouteCall(A, st, c.op,
                          <<Str(StripSlashes(fullBase \o first.s))>> \o mws \o Tail(c.args))
                 ELSE IF c.op = "use" /\ first.t = "router"
                   THEN Use(A, st, R, <<Str(fullBase)>> \o mws \o <<first>>)
                 ELSE IF c.op = "use" /\ first.t = "function"
                   THEN Use(A, st, R, <<Str(fullBase)>> \o mws \o <<first>>)
                 ELSE IF c.op = "use" /\ first.t = "string"
                   THEN Use(A, st, R,
                          <<Str(StripSlashes(fullBase \o first.s))>> \o mws \o Tail(c.args))
                 ELSE IF c.op = "use" THEN Raise(A, "Invalid group.use() arguments")
                 ELSE IF Len(c.args) < 2
                   THEN Raise(A, "group() requires a callback as last argument")
                 ELSE Group(A, st, R,
                        <<Str(StripSlashes(fullBase \o first.s))>> \o mws \o Tail(c.args),
                        c.body)
       IN RunBody(A1, st, R, fullBase, mws, Tail(body))

\* Group without the prefix: the callback's routes keep their own paths
GroupNoPrefix(A, st, R, args, body) ==
  IF Len(args) < 2 \/ args[Len(args)].t # "function"
    THEN Raise(A, "group() requires a callback as last argument")
  ELSE RunBody(A, st, R, <<>>, Functions(SubSeq(args, 2, Len(args) - 1)), body)

\* group(basePath, ...args): the last argument is the callback, body is what
\* the callback does
Group(A, st, R, args, body) ==
  IF Len(args) < 2 \/ args[Len(args)].t # "function"
    THEN Raise(A, "group() requires a callback as last argument")
  ELSE LET fullBase == StripSlashes(args[1].s)
           mws == Functions(SubSeq(args, 2, Len(args) - 1))
           frame == [basePath |-> fullBase, middlewares |-> [i \in 1..Len(mws) |-> mws[i].f]]
           B == RunBody([A EXCEPT !.groupStack = Append(@, frame)], st, R, fullBase, mws, body)
       IN \* the pop is the statement after callback(subApp): a callback that
          \* throws leaves the frame on the stack
          IF B.threw # "" THEN B ELSE [B EXCEPT !.groupStack = DropLast(@)]

\* handler.length: the functions named "eh" declare (err, req, res, next),
\* the handlers and callbacks (req, res), a middleware (req, res, next)
Arity(f) ==
  CASE f[1] = "eh" -> 4
    [] f[1] \in {"h", "w", "cb"} -> 2
    [] OTHER -> 3

\* ErrorHandler pushing whatever it is given
ErrorHandlerUnchecked(A, args) ==
  IF args = <<>> THEN Raise(A, "TypeError")
  ELSE [A EXCEPT !.errorHandlers = Append(@, args[1].f)]

\* errorHandler(handler): reading the length of undefined is a TypeError,
\* and an object has no length
ErrorHandler(A, args) ==
  IF args = <<>> THEN Raise(A, "TypeError")
  ELSE IF args[1].t = "function" /\ Arity(args[1].f) = 4
    THEN [A EXCEPT !.errorHandlers = Append(@, args[1].f)]
  ELSE Raise(A, "errorHandler() requires (err, req, res, next)")

\* one call of the startup script on the application
Register(A, st, R, c) ==
  IF c.op \in RouteOps THEN RouteCall(A, st, c.op, c.args)
  ELSE IF c.op = "use" THEN Use(A, st, R, c.args)
  ELSE IF c.op = "group" THEN Group(A, st, R, c.args, c.body)
  ELSE ErrorHandler(A, c.args)

\* try { call } catch (e) { }: the error is dropped and the script goes on
Try(A, st, R, c) == [Register(A, st, R, c) EXCEPT !.threw = ""]

\* ------------------------------------------------------- client addresses
\* An address is a string kept as a sequence of letters: " " is one letter,
\* the prefix "::ffff:" is one element, and so is each dotted or colon form.
NullAddr == <<Null>>
NoAddr == <<>>
Remote == <<"203.0.113.7">>
Proxy == <<"10.0.0.1">>
MappedProxy == <<"::ffff:", "10.0.0.1">>
Loopback == <<"127.0.0.1">>
Loopback6 == <<"::1">>
Client == <<"198.51.100.4">>
Client6 == <<"2001:db8::1">>
Unknown == <<"unknown">>

\* net.isIP
IsIP(ip) ==
  IF ip \in {Remote, Proxy, Loopback, Client} THEN 4
  ELSE IF ip \in {Loopback6, Client6, MappedProxy} THEN 6
  ELSE 0

\* s.trim()
RECURSIVE TrimStart(_)
TrimStart(s) == IF s # <<>> /\ Head(s) = " " THEN TrimStart(Tail(s)) ELSE s
RECURSIVE TrimEnd(_)
TrimEnd(s) == IF s # <<>> /\ s[Len(s)] = " " THEN TrimEnd(DropLast(s)) ELSE s
Trim(s) == TrimEnd(TrimStart(s))

IpOf(raw, ipv4, ipv6) == [raw |-> raw, ipv4 |-> ipv4, ipv6 |-> ipv6]

\* _parseIp
ParseIp(rawIp) ==
  IF rawIp = NoAddr THEN IpOf(NullAddr, NullAddr, NullAddr)
  ELSE LET t == Trim(rawIp)
           u == IF t = Loopback6 THEN Loopback ELSE t
           ip == IF u # <<>> /\ Head(u) = "::ffff:" THEN Tail(u) ELSE u
           family == IsIP(ip)
       IN IF family = 0 THEN IpOf(rawIp, NullAddr, NullAddr)
          ELSE IpOf(rawIp, IF family = 4 THEN ip ELSE NullAddr,
                           IF family = 6 THEN ip ELSE NullAddr)

\* IsTrustedProxy trusting every remote address
IsTrustedProxyAlways(ip, st) == TRUE

\* _isTrustedProxy: the setting is false, true, "loopback", one address, an
\* array of addresses, or a function (kept as the addresses it accepts)
IsTrustedProxy(ip, st) ==
  LET trust == st.trustProxy
  IN CASE trust.kind = "false" -> FALSE
       [] trust.kind = "true" -> TRUE
       [] trust.kind = "loopback" -> ip = Loopback \/ ip = Loopback6
       [] trust.kind = "string" -> ip = trust.list[1]
       [] trust.kind = "array" -> \E k \in 1..Len(trust.list) : trust.list[k] = ip
       [] trust.kind = "function" -> \E k \in 1..Len(trust.list) : trust.list[k] = ip
       [] OTHER -> FALSE

\* the x-forwarded-for header: absent, or its text split at the commas
NoHeader == [present |-> FALSE, entries |-> <<>>]
Header(entries) == [present |-> TRUE, entries |-> entries]

\* a header value is truthy unless it is absent or the empty string
Truthy(h) == h.present /\ h.entries # <<NoAddr>>

\* list.filter(Boolean) after map(s => s.trim())
RECURSIVE TrimmedEntries(_)
TrimmedEntries(es) ==
  IF es = <<>> THEN <<>>
  ELSE (IF Trim(Head(es)) = <<>> THEN <<>> ELSE <<Trim(Head(es))>>) \o TrimmedEntries(Tail(es))

\* req.ip.display = req.ip.ipv4 ?? '127.0.0.1'
WithDisplay(ip) ==
  [raw |-> ip.raw, ipv4 |-> ip.ipv4, ipv6 |-> ip.ipv6,
   display |-> IF ip.ipv4 # NullAddr THEN ip.ipv4 ELSE Loopback]

\* _enhanceRequest: the client address and the chain of addresses
EnhanceRequest(rq, st) ==
  LET remoteIp == rq.remoteAddress
      chain == TrimmedEntries(rq.forwardedFor.entries)
      forwarded == /\ Truthy(rq.forwardedFor)
                   /\ Len(chain) > 0
                   /\ IsTrustedProxy(remoteIp, st)
      clientIp == IF forwarded THEN chain[1] ELSE remoteIp
      ipsChain == IF forwarded THEN chain ELSE <<remoteIp>>
  IN [rq EXCEPT !.ip = WithDisplay(ParseIp(clientIp)), !.ips = ipsChain]

\* ------------------------------------------------------------- the walk
\* the global middleware test of _handleRequest: mw.path === null, or
\* url.startsWith(mw.path)
ShouldExecute(mw) == mw.path.isNull \/ StartsWith(req.url, mw.path.s)

\* NextGlobal without the path test
NextGlobalAnyPath(i) == IF i < Len(middlewares) THEN i + 1 ELSE 0

\* the first global entry after i that runs for this request, 0 when none
NextGlobal(i) ==
  IF \E j \in (i + 1)..Len(middlewares) : ShouldExecute(middlewares[j])
    THEN CHOOSE j \in (i + 1)..Len(middlewares) :
           /\ ShouldExecute(middlewares[j])
           /\ \A k \in (i + 1)..(j - 1) : ~ShouldExecute(middlewares[k])
    ELSE 0

Pos(stage, i) == [stage |-> stage, i |-> i]

\* a walk that goes back to the first route middleware
RouteTargetAgain(i) ==
  IF route.middlewares # <<>> THEN Pos("route", 1) ELSE Pos("handler", 0)

\* the route part of the walk after the i-th route middleware
RouteTarget(i) ==
  IF i < Len(route.middlewares) THEN Pos("route", i + 1) ELSE Pos("handler", 0)

\* Target without the test of this.notFoundHandler: the default 404 whenever no
\* route matched
TargetDefault404(p, headersSent) ==
  IF headersSent THEN Pos("done", 0)
  ELSE IF p.stage = "global" /\ NextGlobal(p.i) # 0 THEN Pos("global", NextGlobal(p.i))
  ELSE IF p.stage = "global"
    THEN IF ~route.found THEN Pos("default404", 0) ELSE RouteTarget(0)
  ELSE IF p.stage = "route" THEN RouteTarget(p.i)
  ELSE Pos("done", 0)

\* what the walk does after the entry at p, given res.headersSent: the next
\* entry to invoke, the default 404, or return
Target(p, headersSent) ==
  IF headersSent THEN Pos("done", 0)
  ELSE IF p.stage = "global" /\ NextGlobal(p.i) # 0 THEN Pos("global", NextGlobal(p.i))
  ELSE IF p.stage = "global"
    THEN IF ~route.found
           THEN IF notFoundHandler # Null THEN Pos("nf", 0) ELSE Pos("default404", 0)
           ELSE RouteTarget(0)
  ELSE IF p.stage = "route" THEN RouteTarget(p.i)
  ELSE Pos("done", 0)

\* req.url while the global entry mw runs: url.substring(pathToStrip.length) || '/'
StrippedUrl(mw) ==
  IF mw.path.isNull \/ mw.path.s = <<>> THEN requrl
  ELSE IF Substring(req.url, Len(mw.path.s)) = <<>> THEN Slash
  ELSE Substring(req.url, Len(mw.path.s))

NoScript == Script(FALSE, <<>>)

KindOf(stage) == IF stage \in {"global", "route"} THEN "mw" ELSE stage

\* the value the walk calls at t
EntryOf(t) ==
  CASE t.stage = "global" -> middlewares[t.i].handler
    [] t.stage = "route" -> route.middlewares[t.i]
    [] t.stage = "handler" -> route.handler
    [] t.stage = "nf" -> <<"nf", 0>>

\* typeof f === 'function': the values named "opts" are option objects
IsFunction(f) == f[1] # "opts"

\* what a call of the value at t can do: calling a value that is not a
\* function throws a TypeError on the spot
ScriptsFor(t) ==
  CASE t.stage \in {"global", "route", "handler"} /\ ~IsFunction(EntryOf(t)) ->
         {Script(FALSE, <<"throw">>)}
    [] t.stage \in {"global", "route"} /\ EntryOf(t)[1] \in {"tg", "tr"} -> RepeatScripts
    [] t.stage \in {"global", "route"} /\ EntryOf(t)[1] \notin {"tg", "tr"} -> MwScripts
    [] t.stage = "handler" -> HandlerScripts
    [] t.stage = "nf" -> NfScripts
    [] OTHER -> {NoScript}

\* call the entry at t with a fresh promise for the walk to await
Invoke(M, t, script, O) ==
  LET step == M.wp.step + 1
      M1 == [M EXCEPT !.wp = [step |-> step, state |-> "pending", err |-> NoErr],
                      !.log = Append(@, EntryOf(t)),
                      !.requrl = IF t.stage = "global" THEN StrippedUrl(middlewares[t.i]) ELSE @]
  IN Exec(M1, Task(KindOf(t.stage), EntryOf(t), step, 0, FALSE, script, M.requrl), O)

\* the walk goes on after the entry at p: [m, pc, pos]
Proceed(M, p, script, O) ==
  LET t == Target(p, M.res.headersSent)
  IN CASE t.stage = "done" -> [m |-> M, pc |-> "done", pos |-> p]
       [] t.stage = "default404" ->
            [m |-> Json(M, 404, Default404).m, pc |-> "done", pos |-> t]
       [] OTHER -> [m |-> Invoke(M, t, script, O), pc |-> "walk", pos |-> t]

\* a job queued by a settled promise is waiting: it runs before any I/O event
MicrotaskPending ==
  \/ pc = "afterBody"
  \/ pc = "walk" /\ wp.state \in {"resolved", "rejected"}
  \/ \E c \in 1..Len(chains) : chains[c].state \in {"resolved", "rejected", "threw"}

\* {...this.corsOptions, enabled: true, ...route.cors}
MergeCors(app, over) ==
  [k \in DOMAIN app |->
     IF k \in DOMAIN over THEN over[k]
     ELSE IF k = "enabled" THEN TRUE
     ELSE app[k]]

\* the policy _handleRequest applies once the route is known: none for a route
\* with cors false, the merged policy for a route with its own, else the app's
RequestCors(r) ==
  IF r.found /\ r.cors.kind = "false" THEN [corsOptions EXCEPT !.enabled = FALSE]
  ELSE IF r.found /\ r.cors.kind = "object" THEN MergeCors(corsOptions, r.cors.opts)
  ELSE corsOptions

\* ------------------------------------------------------------ query string
\* the text of a url after its first "?", a sequence of characters and key
\* names
RECURSIVE Search(_)
Search(url) ==
  IF url = <<>> THEN <<>>
  ELSE IF Head(url) = "?" THEN Tail(url)
  ELSE Search(Tail(url))

\* the index of the first sep in s, or 0
RECURSIVE IndexOf(_, _, _)
IndexOf(s, sep, i) ==
  IF i > Len(s) THEN 0
  ELSE IF s[i] = sep THEN i
  ELSE IndexOf(s, sep, i + 1)

\* new URLSearchParams(text): the pairs between "&", each cut at its first
\* "="; an empty pair is dropped
RECURSIVE SearchParams(_)
SearchParams(text) ==
  IF text = <<>> THEN <<>>
  ELSE LET amp == IndexOf(text, "&", 1)
           first == IF amp = 0 THEN text ELSE SubSeq(text, 1, amp - 1)
           rest == IF amp = 0 THEN <<>> ELSE SubSeq(text, amp + 1, Len(text))
           eq == IndexOf(first, "=", 1)
           pair == IF eq = 0 THEN <<first, <<>>>>
                   ELSE <<SubSeq(first, 1, eq - 1), SubSeq(first, eq + 1, Len(first))>>
       IN (IF first = <<>> THEN <<>> ELSE <<pair>>) \o SearchParams(rest)

\* the values of req.query: a boolean, a number (its whole part and its
\* decimals) or a string
QBool(b) == [type |-> "boolean", n |-> IF b THEN 1 ELSE 0, frac |-> <<>>, text |-> <<>>]
QNum(n, frac) == [type |-> "number", n |-> n, frac |-> frac, text |-> <<>>]
QStr(v) == [type |-> "string", n |-> 0, frac |-> <<>>, text |-> v]

TrueText == <<"t", "r", "u", "e">>
FalseText == <<"f", "a", "l", "s", "e">>
Digits == {"0", "1", "2", "5", "9"}
DigitValue(c) ==
  CASE c = "0" -> 0 [] c = "1" -> 1 [] c = "2" -> 2 [] c = "5" -> 5 [] c = "9" -> 9

\* /^\d+$/.test(v)
IsDigits(v) == v # <<>> /\ \A i \in 1..Len(v) : v[i] \in Digits

\* /^\d+\.\d+$/.test(v)
IsDecimal(v) ==
  \E k \in 1..Len(v) :
    v[k] = "." /\ IsDigits(SubSeq(v, 1, k - 1)) /\ IsDigits(SubSeq(v, k + 1, Len(v)))

\* parseInt of a string of digits
RECURSIVE ParseInt(_)
ParseInt(v) ==
  IF v = <<>> THEN 0 ELSE 10 * ParseInt(SubSeq(v, 1, Len(v) - 1)) + DigitValue(v[Len(v)])

\* the decimals of a number: the digits without the zeros at the end
RECURSIVE Decimals(_)
Decimals(d) ==
  IF d # <<>> /\ d[Len(d)] = "0" THEN Decimals(SubSeq(d, 1, Len(d) - 1)) ELSE d

\* parseFloat of digits "." digits
ParseFloat(v) ==
  LET k == IndexOf(v, ".", 1)
  IN QNum(ParseInt(SubSeq(v, 1, k - 1)), Decimals(SubSeq(v, k + 1, Len(v))))

\* Coerce leaving every value a string
CoerceNothing(v) == QStr(v)

\* the coercion of one value of req.query
Coerce(v) ==
  IF v = TrueText THEN QBool(TRUE)
  ELSE IF v = FalseText THEN QBool(FALSE)
  ELSE IF IsDigits(v) THEN QNum(ParseInt(v), <<>>)
  ELSE IF IsDecimal(v) THEN ParseFloat(v)
  ELSE QStr(v)

\* req.query: query[key] = value for each pair in order, so the last pair of
\* a key stays, then the coercion of each value
Query(url) ==
  LET pairs == SearchParams(Search(url))
      last(k) == CHOOSE i \in 1..Len(pairs) :
                   pairs[i][1] = k /\ \A j \in (i + 1)..Len(pairs) : pairs[j][1] # k
  IN { <<pairs[i][1], Coerce(pairs[last(pairs[i][1])][2])>> : i \in 1..Len(pairs) }

\* ------------------------------------------------------------------ actions
\* ParseBody going on without the body: the stream is listened to and
\* _handleRequest continues at once
ParseBodyNoAwait(method) ==
  IF method \in BodylessMethods
    THEN [state |-> "resolved", listeners |-> "none", pc |-> "afterBody"]
    ELSE [state |-> "reading", listeners |-> "parser", pc |-> "afterBody"]

\* `await this._parseBody(req, ...)`: a bodyless method resolves on the spot
\* with the body {}, another method installs the stream listeners and
\* _handleRequest stays at the await until the promise settles
ParseBody(method) ==
  IF method \in BodylessMethods
    THEN [state |-> "resolved", listeners |-> "none", pc |-> "afterBody"]
    ELSE [state |-> "reading", listeners |-> "parser", pc |-> "body"]

\* _handleRequest from its first line to the await of _parseBody
Begin ==
  /\ pc = "start"
  /\ UNCHANGED <<helpers, registry, wp, chains, tasks, requrl, pos,
                 log, ehLog, ehCont, contErr, delivered, raised, caught, late, unhandled>>
  /\ IF req.method = "OPTIONS" /\ corsOptions.enabled
       THEN /\ res' = ApplyCors(req, res, corsOptions)
            /\ pc' = "done"
            /\ UNCHANGED <<route, parse>>
       ELSE /\ route' = FindRoute(routes, req.method, Pathname(req.url))
            /\ res' = ApplyCors(req, res, RequestCors(route'))
            /\ IF RequestCors(route').enabled /\ req.method = "OPTIONS"
                 THEN /\ pc' = "done"
                      /\ UNCHANGED parse
                 ELSE /\ parse' = [parse EXCEPT !.state = ParseBody(req.method).state,
                                                !.listeners = ParseBody(req.method).listeners]
                      /\ pc' = ParseBody(req.method).pc
  /\ req' = [EnhanceRequest(req, settings) EXCEPT
               !.query = Query(req.url),
               !.body = IF pc' \in {"afterBody", "body"} THEN "{}" ELSE @]

\* Exceeds letting every size through
ExceedsNever(size, limit) == FALSE

\* the size check of the 'data' listener
Exceeds(size, limit) == size > limit

\* req.on('data', chunk => ...)
Data ==
  /\ pc = "body"
  /\ parse.state = "reading"
  /\ parse.chunks < MaxChunks
  /\ req.text # <<>>
  /\ ~MicrotaskPending
  /\ \E len \in {1, Limit - parse.size, Limit - parse.size + 1} :
       /\ len > 0
       /\ LET size == parse.size + len
          IN IF Exceeds(size, Limit)
               THEN /\ parse' = [parse EXCEPT !.size = size, !.chunks = @ + 1,
                                              !.limitExceeded = TRUE,
                                              !.listeners = "noop",
                                              !.state = "rejected", !.err = TooLargeErr]
                    /\ pc' = "afterBody"
               ELSE /\ parse' = [parse EXCEPT !.size = size, !.chunks = @ + 1,
                                              !.raw = @ + len]
                    /\ pc' = "body"
  /\ UNCHANGED <<helpers, registry, req, route, res, wp, chains, tasks, requrl, pos,
                 log, ehLog, ehCont, contErr, delivered, raised, caught, late, unhandled>>

\* the texts of a body: {}, " []", " 1 ", null, {x, hi, " " and ""
ObjText == <<"{", "}">>
PaddedArr == <<" ", "[", "]">>
PaddedNum == <<" ", "1", " ">>
NullText == <<"null">>
BadBrace == <<"{", "x">>
BadWord == <<"h", "i">>
Blank == <<" ">>

\* JSON.parse(text) returns: white space around the value is allowed
JsonParses(text) == Trim(text) \in {ObjText, <<"[", "]">>, <<"1">>, NullText}

\* Decode without the strict test of a JSON body
DecodeLenient(contentType, options, text) ==
  IF IsMultipart(contentType) /\ ~HasBoundary(contentType) THEN BoundaryErr ELSE NoErr

\* the decoding of the 'end' listener: the error it rejects with, or NoErr.
\* The strict test stands after JSON.parse inside the same try, so it is
\* reached only by a text that parses.
Decode(contentType, options, text) ==
  IF IsJson(contentType)
    THEN IF /\ JsonParses(text)
            /\ options.json.strict
            /\ Trim(text) # <<>>
            /\ Trim(text)[1] \notin {"[", "{"}
           THEN StrictErr ELSE NoErr
  ELSE IF IsMultipart(contentType) /\ ~HasBoundary(contentType) THEN BoundaryErr
  ELSE NoErr

\* req.body when the 'end' listener is done: the empty object it starts as,
\* or what the decoder made
DecodedBody(contentType, text) ==
  IF IsJson(contentType) THEN (IF JsonParses(text) THEN "parsed" ELSE "{}")
  ELSE IF IsMultipart(contentType) /\ ~HasBoundary(contentType) THEN "{}"
  ELSE IF IsUrlencoded(contentType) \/ IsMultipart(contentType) THEN "parsed"
  ELSE IF text # <<>> THEN "parsed" ELSE "{}"

\* req.on('end', () => ...)
EndOfBody ==
  /\ pc = "body"
  /\ parse.state = "reading"
  /\ ~MicrotaskPending
  /\ (parse.size = 0) = (req.text = <<>>)
  /\ LET e == Decode(req.contentType, BodyOptions, req.text)
     IN parse' = [parse EXCEPT !.state = IF e = NoErr THEN "resolved" ELSE "rejected",
                               !.err = e, !.ended = TRUE]
  /\ req' = [req EXCEPT !.bodySize = parse.size,
                        !.body = DecodedBody(req.contentType, req.text)]
  /\ pc' = "afterBody"
  /\ UNCHANGED <<helpers, registry, route, res, wp, chains, tasks, requrl, pos,
                 log, ehLog, ehCont, contErr, delivered, raised, caught, late, unhandled>>

\* a chunk arrives after the abort: req.on('data', () => { })
LateData ==
  /\ parse.listeners = "noop"
  /\ ~parse.ended
  /\ parse.chunks < MaxChunks
  /\ ~MicrotaskPending
  /\ parse' = [parse EXCEPT !.chunks = @ + 1]
  /\ UNCHANGED <<helpers, registry, req, route, res, pc, wp, chains, tasks, requrl, pos,
                 log, ehLog, ehCont, contErr, delivered, raised, caught, late, unhandled>>

\* the stream ends after the abort: req.on('end', () => { })
LateEnd ==
  /\ parse.listeners = "noop"
  /\ ~parse.ended
  /\ ~MicrotaskPending
  /\ parse' = [parse EXCEPT !.ended = TRUE]
  /\ UNCHANGED <<helpers, registry, req, route, res, pc, wp, chains, tasks, requrl, pos,
                 log, ehLog, ehCont, contErr, delivered, raised, caught, late, unhandled>>

\* _handleRequest after the await of _parseBody, up to its next suspension
AfterBody ==
  /\ pc = "afterBody"
  /\ UNCHANGED <<helpers, registry, req, route, parse>>
  /\ IF parse.state = "rejected"
       THEN IF parse.err.code = "PAYLOAD_TOO_LARGE"
              THEN LET r == Json(Cur, 413, TooLarge413)
                   IN /\ Install(IF r.threw
                                   THEN [r.m EXCEPT !.caught = @ \cup
                                           {[err |-> HeadersSentErr, sent |-> TRUE]}]
                                   ELSE r.m)
                      /\ pc' = "done"
                      /\ pos' = pos
              ELSE \E O \in Oracles :
                     /\ Install(RunErrorHandlers(Cur, parse.err, Ctx("body", 0), O))
                     /\ pc' = "chain"
                     /\ pos' = pos
       ELSE LET t == Target(Pos("global", 0), res.headersSent)
            IN \E s \in ScriptsFor(t) : \E O \in OraclesFor(s.ops, FALSE) :
                 LET n == Proceed(Cur, Pos("global", 0), s, O)
                 IN /\ Install(n.m)
                    /\ pc' = n.pc
                    /\ pos' = n.pos

\* _handleRequest after the await of an entry that settled without an error
WalkStep ==
  /\ pc = "walk"
  /\ wp.state = "resolved"
  /\ UNCHANGED <<helpers, registry, req, route, parse>>
  /\ LET t == Target(pos, res.headersSent)
     IN \E s \in ScriptsFor(t) : \E O \in OraclesFor(s.ops, FALSE) :
            LET n == Proceed([Cur EXCEPT !.wp.state = "awaited"], pos, s, O)
            IN /\ Install(n.m)
               /\ pc' = n.pc
               /\ pos' = n.pos

\* the catch of _handleRequest
WalkCatch ==
  /\ pc = "walk"
  /\ wp.state = "rejected"
  /\ UNCHANGED <<helpers, registry, req, route, parse, pos>>
  /\ \E O \in OraclesFor(<<>>, ~res.headersSent) :
       LET M == [Cur EXCEPT !.wp.state = "awaited",
                            !.caught = @ \cup {[err |-> wp.err, sent |-> res.headersSent]}]
       IN IF ~res.headersSent
            THEN /\ Install(RunErrorHandlers(M, wp.err, Ctx("catch", 0), O))
                 /\ pc' = "chain"
            ELSE /\ Install(M)
                 /\ pc' = "done"

\* the code after `await runNext()` in _runErrorHandlers, and after the await
\* of _runErrorHandlers in its caller
ChainSettle(c) ==
  /\ chains[c].state \in {"resolved", "rejected", "threw"}
  /\ UNCHANGED <<helpers, registry, req, route, parse, pos>>
  /\ LET r == IF chains[c].state = "rejected"
                THEN Json(Cur, 500, Default500)
                ELSE [m |-> Cur, threw |-> chains[c].state = "threw"]
         M == [r.m EXCEPT !.chains[c].state = "settled"]
         ctx == chains[c].ctx
     IN IF ctx.kind = "mw"
          THEN /\ Install(IF r.threw THEN [M EXCEPT !.unhandled = TRUE]
                          ELSE Resolve(M, ctx.step))
               /\ pc' = pc
          ELSE /\ Install(IF r.threw /\ ctx.kind = "catch"
                            THEN [M EXCEPT !.unhandled = TRUE] ELSE M)
               /\ pc' = "done"

\* the I/O a suspended user function waits for completes
Resume(T) ==
  /\ T \in tasks
  /\ ~MicrotaskPending
  /\ UNCHANGED <<helpers, registry, req, route, parse, pos, pc>>
  /\ \E O \in OraclesFor(T.ops, FALSE) :
       Install(Exec([Cur EXCEPT !.tasks = @ \ {T}], T, O))


\* what the pipeline leaves alone while the startup script runs
request == <<notFoundHandler, corsOptions, bodyParserOptions, settings,
             req, route, res, parse, pos, wp, chains, tasks, requrl,
             log, ehLog, ehCont, contErr, delivered, raised, caught, late, unhandled>>

\* the call has returned A, or thrown: an error nobody catches ends the
\* startup script before listen()
Registered(A) ==
  /\ routes' = A.routes
  /\ middlewares' = A.middlewares
  /\ errorHandlers' = A.errorHandlers
  /\ groupStack' = A.groupStack
  /\ router' = A.router
  /\ thrown' = A.threw
  /\ program' = IF A.threw = "" THEN Tail(program) ELSE <<>>
  /\ pc' = IF A.threw = "" THEN pc ELSE "crashed"
  /\ UNCHANGED <<helpers, request>>

\* the application the startup script is registering on
Application ==
  [App(routes, middlewares) EXCEPT !.errorHandlers = errorHandlers, !.groupStack = groupStack,
                                   !.router = router]

\* app.get / post / put / patch / delete / all
CallRoute ==
  /\ pc = "setup"
  /\ program # <<>>
  /\ Head(program).op \in RouteOps
  /\ Registered(RouteCall(Application, settings,
                          Head(program).op, Head(program).args))

\* app.use
CallUse(R) ==
  /\ pc = "setup"
  /\ program # <<>>
  /\ Head(program).op = "use"
  /\ Registered(Use(Application, settings, R, Head(program).args))

\* app.group
CallGroup(R) ==
  /\ pc = "setup"
  /\ program # <<>>
  /\ Head(program).op = "group"
  /\ Registered(Group(Application, settings, R,
                      Head(program).args, Head(program).body))

\* app.errorHandler
CallErrorHandler ==
  /\ pc = "setup"
  /\ program # <<>>
  /\ Head(program).op = "errorHandler"
  /\ Registered(ErrorHandler(Application, Head(program).args))

\* a registration call inside try/catch
CallTry(R) ==
  /\ pc = "setup"
  /\ program # <<>>
  /\ Head(program).op = "try"
  /\ Registered(Try(Application, settings, R, Head(program).body[1]))

\* a mount that keeps the sub-router by reference: what the sub-router
\* registers later is registered on the parent as well
CallRouterLive ==
  /\ pc = "setup"
  /\ program # <<>>
  /\ Head(program).op = "router"
  /\ LET made == Head(program).body[1]
         B == Register([App(router.routes, router.middlewares)
                          EXCEPT !.groupStack = router.groupStack],
                       DefaultSettings, router, made)
         P == Register(Application, settings, router,
                       IF made.op \in RouteOps
                       THEN [made EXCEPT !.args[1].s = <<"/", "widgets">> \o @]
                       ELSE made)
     IN /\ router' = [router EXCEPT !.routes = B.routes, !.middlewares = B.middlewares]
        /\ routes' = P.routes
        /\ middlewares' = P.middlewares
        /\ thrown' = B.threw
        /\ program' = IF B.threw = "" THEN Tail(program) ELSE <<>>
        /\ pc' = IF B.threw = "" THEN pc ELSE "crashed"
  /\ UNCHANGED <<helpers, request, errorHandlers, groupStack>>

\* a registration call made on the sub-router: router.get(..), router.use(..)
CallRouter ==
  /\ pc = "setup"
  /\ program # <<>>
  /\ Head(program).op = "router"
  /\ LET B == Register([App(router.routes, router.middlewares)
                          EXCEPT !.groupStack = router.groupStack],
                       DefaultSettings, router, Head(program).body[1])
     IN /\ router' = [router EXCEPT !.routes = B.routes, !.middlewares = B.middlewares]
        /\ thrown' = B.threw
        /\ program' = IF B.threw = "" THEN Tail(program) ELSE <<>>
        /\ pc' = IF B.threw = "" THEN pc ELSE "crashed"
  /\ UNCHANGED <<helpers, request, routes, middlewares, errorHandlers, groupStack>>

\* app.listen, and the arrival of the request
Listen ==
  /\ pc = "setup"
  /\ program = <<>>
  /\ pc' = "start"
  /\ UNCHANGED <<helpers, registry, req, route, res, parse, pos, wp, chains, tasks, requrl,
                 log, ehLog, ehCont, contErr, delivered, raised, caught, late, unhandled>>

\* ------------------------------------------------------------ configurations
CorsPolicy(enabled, origin, strict, credentials) ==
  [enabled |-> enabled, origin |-> origin, strictOrigin |-> strict, credentials |-> credentials]

\* the constructor's policy, cors(), cors({origin, strictOrigin: true}), an
\* array policy with credentials, and strict policies with a wildcard entry
CorsConfigs ==
  { CorsPolicy(FALSE, Origin(FALSE, <<Star>>), FALSE, FALSE),
    CorsPolicy(TRUE, Origin(FALSE, <<Star>>), FALSE, FALSE),
    CorsPolicy(TRUE, Origin(FALSE, <<Good>>), TRUE, FALSE),
    CorsPolicy(TRUE, Origin(TRUE, <<Other, Good>>), FALSE, TRUE),
    CorsPolicy(TRUE, Origin(FALSE, <<Wild>>), TRUE, FALSE),
    CorsPolicy(TRUE, Origin(TRUE, <<Good, Wild>>), TRUE, FALSE) }

BodyParserOptions(jsonLimit, strict, formLimit, multipartLimit) ==
  [json |-> [limit |-> jsonLimit, strict |-> strict],
   urlencoded |-> [limit |-> formLimit, extended |-> TRUE],
   multipart |-> [limit |-> multipartLimit]]

\* the constructor's options, json({limit: '1mb', strict: false}), and numeric limits
BodyConfigs ==
  { BodyParserOptions(Label(10, "mb"), TRUE, Label(10, "mb"), Label(10, "mb")),
    BodyParserOptions(Label(1, "mb"), FALSE, Label(2, "kb"), Label(1, "junk")),
    BodyParserOptions(Label(3, "num"), TRUE, Label(2, "num"), Label(1, "num")) }

MwPaths == {NullPath, Path(UrlA)}

\* this.middlewares after n calls of use()
MiddlewareLists ==
  UNION { { [i \in 1..n |-> [path |-> ps[i], handler |-> <<"g", i>>]] : ps \in [1..n -> MwPaths] }
          : n \in 0..MaxGlobal }

\* the route all('*', r1, .., rn, h) registers: n middleware and a handler,
\* matching every request
RouteWith(n) ==
  [method |-> "ALL", path |-> Star, handler |-> <<"h", 0>>,
   middlewares |-> [i \in 1..n |-> <<"r", i>>],
   pattern |-> PathToRegex(Star, DefaultSettings), allowTrailingSlash |-> TRUE,
   cors |-> NoCors, bodyParserOptions |-> <<>>, groupChain |-> <<>>]

\* this.routes: no route, or one route matching every request
RouteLists == {<<>>} \cup { <<RouteWith(n)>> : n \in 0..MaxRouteMw }

\* req.ip and req.ips before _enhanceRequest
NoIp == [raw |-> NullAddr, ipv4 |-> NullAddr, ipv6 |-> NullAddr, display |-> NullAddr]

\* a request as the transport delivers it, from the address Remote
Request(method, url, origin, contentType) ==
  [method |-> method, url |-> url, origin |-> origin, contentType |-> contentType,
   bodySize |-> 0, remoteAddress |-> Remote, forwardedFor |-> NoHeader,
   ip |-> NoIp, ips |-> <<>>, query |-> {}, text |-> <<>>, body |-> "undefined"]

BodyContentTypes ==
  {"application/json", "application/x-www-form-urlencoded", "multipart/form-data",
   "multipart/form-data; boundary=x", "text/plain"}

Origins == {NoOrigin, Good, Evil, Api, Bare, Undotted}

\* the body texts sent with a content type
BodyTexts(c) ==
  IF c = "" THEN {<<>>}
  ELSE IF IsJson(c) THEN {<<>>, ObjText, PaddedNum, BadWord, BadBrace}
  ELSE {<<>>, BadWord}

Requests ==
  UNION { { [Request(m, u, o, c) EXCEPT !.text = t] : t \in BodyTexts(c) } :
            m \in Methods, u \in Urls, o \in Origins, c \in BodyContentTypes \cup {""} }

\* no response method is being called
NoCall == [name |-> "", depth |-> 0, outcome |-> "none"]

\* no validation middleware is registered
NoValidation == [schema |-> <<>>, body |-> [kind |-> "none", props |-> <<>>],
                 next |-> 0, errors |-> <<>>, threw |-> ""]

\* the state _enhanceResponse leaves
FreshResponse ==
  [headersSent |-> FALSE, responseSent |-> FALSE, statusCode |-> 200,
   headers |-> {}, writes |-> <<>>]

\* The configurations explored: every shape of registry under a plain GET
\* with at most one error handler (the walk), every list of error handlers
\* under a plain GET with a small registry (the chain), every content type
\* and limit under a POST with a small registry (the body), and every CORS
\* policy, origin and method with a small registry.
SmallRegistry ==
  /\ middlewares = [i \in 1..1 |-> [path |-> NullPath, handler |-> <<"g", i>>]]
  /\ Len(errorHandlers) <= 1
  /\ routes = <<RouteWith(0)>>
  /\ req.url = UrlA

ChainConfig ==
  /\ corsOptions = CorsPolicy(FALSE, Origin(FALSE, <<Star>>), FALSE, FALSE)
  /\ bodyParserOptions = BodyParserOptions(Label(10, "mb"), TRUE, Label(10, "mb"), Label(10, "mb"))
  /\ req.method = "GET"
  /\ req.origin = NoOrigin
  /\ req.url = UrlA
  /\ Len(middlewares) <= 1
  /\ routes \in {<<>>, <<RouteWith(1)>>}

WalkConfig ==
  /\ Len(errorHandlers) <= 1
  /\ corsOptions = CorsPolicy(FALSE, Origin(FALSE, <<Star>>), FALSE, FALSE)
  /\ bodyParserOptions = BodyParserOptions(Label(10, "mb"), TRUE, Label(10, "mb"), Label(10, "mb"))
  /\ req.method = "GET"
  /\ req.origin = NoOrigin

BodyConfig ==
  /\ corsOptions = CorsPolicy(FALSE, Origin(FALSE, <<Star>>), FALSE, FALSE)
  /\ req.method = "POST"
  /\ req.origin = NoOrigin
  /\ SmallRegistry

CorsConfig ==
  /\ bodyParserOptions = BodyParserOptions(Label(10, "mb"), TRUE, Label(10, "mb"), Label(10, "mb"))
  /\ req.contentType \in {"", "application/json"}
  /\ SmallRegistry

\* no part of _handleRequest has run for the request
IdleRequest ==
  /\ route = NoRoute
  /\ res = FreshResponse
  /\ parse = [state |-> "idle", size |-> 0, raw |-> 0, chunks |-> 0,
              limitExceeded |-> FALSE, listeners |-> "none", ended |-> FALSE, err |-> NoErr]
  /\ pos = Pos("global", 0)
  /\ wp = [step |-> 0, state |-> "none", err |-> NoErr]
  /\ chains = <<>>
  /\ tasks = {}
  /\ requrl = req.url
  /\ log = <<>>
  /\ ehLog = <<>>
  /\ ehCont = {}
  /\ contErr = {}
  /\ delivered = {}
  /\ raised = {}
  /\ caught = {}
  /\ late = {}
  /\ unhandled = FALSE
  /\ call = NoCall
  /\ validation = NoValidation

\* the first request: the server has finished with none
Idle ==
  /\ IdleRequest
  /\ served = 0

\* the application is listening and the request has arrived
Arrived ==
  /\ program = <<>>
  /\ thrown = ""
  /\ pc = "start"
  /\ Idle

\* the requests one connection can carry, one after the other
MaxRequests == 2

\* the per-request state of the request that arrives next: IdleRequest in
\* the next state
Renewed ==
  /\ route' = NoRoute
  /\ res' = FreshResponse
  /\ parse' = [state |-> "idle", size |-> 0, raw |-> 0, chunks |-> 0,
               limitExceeded |-> FALSE, listeners |-> "none", ended |-> FALSE, err |-> NoErr]
  /\ pos' = Pos("global", 0)
  /\ wp' = [step |-> 0, state |-> "none", err |-> NoErr]
  /\ chains' = <<>>
  /\ tasks' = {}
  /\ requrl' = req'.url
  /\ log' = <<>>
  /\ ehLog' = <<>>
  /\ ehCont' = {}
  /\ contErr' = {}
  /\ delivered' = {}
  /\ raised' = {}
  /\ caught' = {}
  /\ late' = {}
  /\ unhandled' = FALSE
  /\ call' = NoCall
  /\ validation' = NoValidation

\* NextRequest taking the first route off the list as it goes
NextRequestShifting(U) ==
  /\ pc = "done"
  /\ tasks = {}
  /\ ~MicrotaskPending
  /\ served + 1 < MaxRequests
  /\ routes' = IF routes = <<>> THEN <<>> ELSE Tail(routes)
  /\ UNCHANGED <<middlewares, errorHandlers, notFoundHandler, corsOptions, bodyParserOptions,
                 groupStack, router, settings, program, thrown>>
  /\ \E u \in U : req' = Request(req.method, u, req.origin, req.contentType)
  /\ served' = served + 1
  /\ pc' = "start"
  /\ Renewed

\* the server is done with a request and its 'request' listener is called
\* with the next one: a new req and res, and the same application
NextRequest(U) ==
  /\ pc = "done"
  /\ tasks = {}
  /\ ~MicrotaskPending
  /\ served + 1 < MaxRequests
  /\ UNCHANGED registry
  /\ \E u \in U : req' = Request(req.method, u, req.origin, req.contentType)
  /\ served' = served + 1
  /\ pc' = "start"
  /\ Renewed

DefaultBodyParserOptions ==
  BodyParserOptions(Label(10, "mb"), TRUE, Label(10, "mb"), Label(10, "mb"))

\* const router = Router(); router.use(rm); router.get('/', r1, w1);
\* router.get('/:id', w2)
SubRouter ==
  LET none == [routes |-> <<>>, middlewares |-> <<>>, groupStack |-> <<>>,
               bodyParserOptions |-> DefaultBodyParserOptions]
      A0 == Use(App(<<>>, <<>>), DefaultSettings, none, <<Fn(<<"rm", 0>>)>>)
      A1 == RouteCall(A0, DefaultSettings, "get", <<Str(Slash), Fn(<<"r", 1>>), Fn(<<"w", 1>>)>>)
      A2 == RouteCall(A1, DefaultSettings, "get", <<Str(Slash \o <<":id">>), Fn(<<"w", 2>>)>>)
  IN [routes |-> A2.routes, middlewares |-> A2.middlewares, groupStack |-> <<>>,
      bodyParserOptions |-> DefaultBodyParserOptions]

Init ==
  /\ middlewares \in MiddlewareLists
  /\ errorHandlers \in { [i \in 1..n |-> <<"eh", i>>] : n \in 0..MaxErrorHandlers }
  /\ groupStack = <<>>
  /\ router = SubRouter
  /\ notFoundHandler \in {Null, "nf"}
  /\ corsOptions \in CorsConfigs
  /\ bodyParserOptions \in BodyConfigs
  /\ req \in Requests
  /\ (req.method \in BodylessMethods) = (req.contentType = "")
  /\ routes \in RouteLists
  /\ routes # <<>> => notFoundHandler = Null
  /\ settings = DefaultSettings
  /\ WalkConfig \/ ChainConfig \/ BodyConfig \/ CorsConfig
  /\ Arrived

Next ==
  \/ Begin
  \/ Data
  \/ EndOfBody
  \/ AfterBody
  \/ WalkStep
  \/ WalkCatch
  \/ \E c \in 1..Len(chains) : ChainSettle(c)
  \/ \E T \in tasks : Resume(T)

Spec == Init /\ [][Next]_vars

\* the POST requests of every content type and limit, with the rest of the
\* stream still arriving after an abort
InitBody == Init /\ BodyConfig
NextBody ==
  \/ Begin
  \/ Data
  \/ EndOfBody
  \/ LateData
  \/ LateEnd
  \/ AfterBody
  \/ WalkStep
  \/ WalkCatch
  \/ \E c \in 1..Len(chains) : ChainSettle(c)
  \/ \E T \in tasks : Resume(T)
SpecBody == InitBody /\ [][NextBody]_vars

\* the requests of every method and origin under every CORS policy
InitCors == Init /\ CorsConfig
SpecCors == InitCors /\ [][Next]_vars

\* the values of app.set('trust proxy', v): false, true, "loopback", one
\* address, an array of addresses, a function accepting one address
TrustSettings ==
  { Trust("false", <<>>), Trust("true", <<>>), Trust("loopback", <<>>),
    Trust("string", <<Proxy>>), Trust("array", <<Proxy, Loopback>>),
    Trust("function", <<Remote>>) }

\* the remote addresses of the transport
Remotes == {Remote, Proxy, MappedProxy, Loopback, Loopback6, NoAddr}

\* the x-forwarded-for headers: none, "", "198.51.100.4",
\* "198.51.100.4, 10.0.0.1", " ,", "unknown,2001:db8::1"
ForwardedHeaders ==
  { NoHeader, Header(<<NoAddr>>), Header(<<Client>>),
    Header(<<Client, <<" ">> \o Proxy>>), Header(<< <<" ">>, NoAddr >>),
    Header(<<Unknown, Client6>>) }

\* requests from every remote address with every forwarded header, under
\* every trust setting, with a small registry
InitIp ==
  /\ middlewares = [i \in 1..1 |-> [path |-> NullPath, handler |-> <<"g", i>>]]
  /\ errorHandlers = <<>>
  /\ groupStack = <<>>
  /\ router = SubRouter
  /\ notFoundHandler = Null
  /\ corsOptions = CorsPolicy(FALSE, Origin(FALSE, <<Star>>), FALSE, FALSE)
  /\ bodyParserOptions = BodyParserOptions(Label(10, "mb"), TRUE, Label(10, "mb"), Label(10, "mb"))
  /\ routes = <<RouteWith(0)>>
  /\ settings \in { [DefaultSettings EXCEPT !.trustProxy = t] : t \in TrustSettings }
  /\ \E m \in {"GET", "POST"}, a \in Remotes, h \in ForwardedHeaders :
       req = [Request(m, UrlA, NoOrigin, IF m = "GET" THEN "" ELSE "application/json")
                EXCEPT !.remoteAddress = a, !.forwardedFor = h,
                       !.text = IF m = "GET" THEN <<>> ELSE ObjText]
  /\ Arrived
SpecIp == InitIp /\ [][Next]_vars

\* a request to an application whose middleware (tg, tr) calls its
\* continuation more than once
InitOnce ==
  /\ \E n \in 1..MaxGlobal : \E ps \in [1..n -> MwPaths] :
       middlewares = [i \in 1..n |-> [path |-> ps[i], handler |-> <<"tg", i>>]]
  /\ errorHandlers = <<>>
  /\ groupStack = <<>>
  /\ router = SubRouter
  /\ notFoundHandler \in {Null, "nf"}
  /\ corsOptions = CorsPolicy(FALSE, Origin(FALSE, <<Star>>), FALSE, FALSE)
  /\ bodyParserOptions = BodyParserOptions(Label(10, "mb"), TRUE, Label(10, "mb"), Label(10, "mb"))
  /\ \E n \in 0..MaxRouteMw :
       routes \in {<<>>, <<[RouteWith(n) EXCEPT !.middlewares = [i \in 1..n |-> <<"tr", i>>]]>>}
  /\ routes # <<>> => notFoundHandler = Null
  /\ settings = DefaultSettings
  /\ \E m \in {"GET", "POST"}, u \in Urls :
       req = [Request(m, u, NoOrigin, IF m = "GET" THEN "" ELSE "application/json")
                EXCEPT !.text = IF m = "GET" THEN <<>> ELSE ObjText]
  /\ Arrived
SpecOnce == InitOnce /\ [][Next]_vars

\* the functions and paths of the startup scripts
H1 == <<"h", 1>>
H2 == <<"h", 2>>
H3 == <<"h", 3>>
H4 == <<"h", 4>>
AuthMw == <<"auth", 0>>
G1 == <<"g", 1>>
G2 == <<"g", 2>>
UsersId == <<"/", "users", "/", ":id">>
UsersActive == <<"/", "users", "/", "active">>
X == <<"/", "x">>
ApiBase == <<"/", "api">>
Widgets == <<"/", "widgets">>
Public == <<"/", "public">>
CPlus == <<"/", "c", "+">>
V1 == <<"/", "v1">>
Eh1 == <<"eh", 1>>
GroupMw == <<"gm", 0>>
W1 == <<"w", 1>>
W2 == <<"w", 2>>
W3 == <<"w", 3>>
R1 == <<"r", 1>>
RM == <<"rm", 0>>
RM2 == <<"rm", 2>>

\* the startup scripts: routes that overlap, in both orders; ALL and another
\* method before a GET route; a route before and after a mount; groups; the
\* shapes of use(); routes without a handler; a route with an options object;
\* a route registered twice, under two spellings of its path, and with an
\* array of paths
Programs ==
  { <<Call("get", <<Str(UsersId), Fn(H1)>>, <<>>), Call("get", <<Str(UsersActive), Fn(H2)>>, <<>>)>>,
    <<Call("get", <<Str(UsersActive), Fn(H2)>>, <<>>), Call("get", <<Str(UsersId), Fn(H1)>>, <<>>)>>,
    <<Call("all", <<Str(X), Fn(H1)>>, <<>>), Call("get", <<Str(X), Fn(H2)>>, <<>>)>>,
    <<Call("post", <<Str(X), Fn(H1)>>, <<>>), Call("get", <<Str(X), Fn(H2)>>, <<>>)>>,
    <<Call("get", <<Str(Widgets \o <<"/", ":id">>), Fn(H1)>>, <<>>),
      Call("use", <<Str(Widgets), RouterArg>>, <<>>)>>,
    <<Call("use", <<Str(Widgets), RouterArg>>, <<>>),
      Call("get", <<Str(Widgets \o <<"/", ":id">>), Fn(H1)>>, <<>>)>>,
    <<Call("group", <<Str(ApiBase), Fn(AuthMw), Fn(<<"cb", 0>>)>>,
           <<Call("get", <<Str(X), Fn(H1)>>, <<>>)>>)>>,
    <<Call("group", <<Str(ApiBase \o Slash), Fn(AuthMw), Fn(<<"cb", 0>>)>>,
           <<Call("get", <<Str(X), Fn(H1)>>, <<>>)>>),
      Call("get", <<Str(Public), Fn(H2)>>, <<>>)>>,
    <<Call("use", <<RouterArg>>, <<>>)>>,
    <<Call("use", <<Str(Widgets), Fn(G1), RouterArg>>, <<>>)>>,
    <<Call("use", <<Str(Widgets), Fn(G1), Fn(G2), RouterArg>>, <<>>)>>,
    <<Call("use", <<Str(Widgets), Fn(G1), Opts(1), RouterArg>>, <<>>)>>,
    <<Call("use", <<Str(Widgets), Fn(G1), Fn(G2)>>, <<>>), Call("get", <<Str(Widgets), Fn(H1)>>, <<>>)>>,
    <<Call("use", <<Fn(G1)>>, <<>>), Call("use", <<Str(X), Fn(G2)>>, <<>>),
      Call("get", <<Str(X), Fn(H1)>>, <<>>)>>,
    <<Call("use", <<Fn(G1)>>, <<>>), Call("use", <<>>, <<>>)>>,
    <<Call("get", <<Str(X), Fn(H1)>>, <<>>), Call("use", <<Str(X), Opts(1)>>, <<>>)>>,
    <<Call("use", <<Fn(G1)>>, <<>>), Call("use", <<Str(X), Fn(G2), Opts(1)>>, <<>>)>>,
    <<Call("use", <<Fn(G1), Fn(G2)>>, <<>>)>>,
    <<Call("use", <<Str(X)>>, <<>>)>>,
    <<Call("get", <<Str(Public), Fn(H2)>>, <<>>), Call("get", <<Str(X)>>, <<>>)>>,
    <<Call("all", <<Str(X)>>, <<>>)>>,
    <<Call("post", <<>>, <<>>)>>,
    <<Call("get", <<Str(<<"x">>)>>, <<>>)>>,
    <<Call("group", <<Str(ApiBase), Fn(AuthMw), Fn(<<"cb", 0>>)>>,
           <<Call("get", <<Str(X)>>, <<>>)>>)>>,
    <<Call("group", <<Str(ApiBase), Fn(<<"cb", 0>>)>>,
           <<Call("get", <<Str(Public), Fn(H2)>>, <<>>), Call("get", <<Str(X)>>, <<>>)>>)>>,
    <<Call("group", <<Str(ApiBase), Fn(AuthMw), Opts(1)>>, <<>>)>>,
    <<Call("get", <<Str(Public), Opts(1), Fn(H1)>>, <<>>), Call("get", <<Str(X), Fn(H2)>>, <<>>)>>,
    <<Call("get", <<Str(Public), Opts(0), Fn(H1)>>, <<>>), Call("get", <<Str(X), Fn(H2)>>, <<>>)>>,
    <<Call("get", <<Str(X), Fn(H3)>>, <<>>), Call("get", <<Str(X), Fn(H3)>>, <<>>)>>,
    <<Call("get", <<Str(X), Fn(H3)>>, <<>>), Call("get", <<Str(Slash \o X \o Slash), Fn(AuthMw), Fn(H3)>>, <<>>)>>,
    <<Call("get", <<Arr(<<X, X \o Slash, Public, X>>), Fn(H3)>>, <<>>)>>,
    <<Call("get", <<Str(Public), Fn(H3)>>, <<>>),
      Call("get", <<Arr(<<X, Public, UsersActive>>), Fn(AuthMw), Fn(H3)>>, <<>>)>>,
    <<Call("get", <<Str(X), Fn(H3)>>, <<>>), Call("get", <<Str(X), Fn(H2)>>, <<>>)>>,
    <<Call("get", <<Str(CPlus), Fn(H3)>>, <<>>)>>,
    <<Call("get", <<Str(Slash), Fn(H3)>>, <<>>), Call("all", <<Str(Public), Fn(H2)>>, <<>>)>>,
    <<Call("group", <<Str(ApiBase), Fn(AuthMw), Fn(<<"cb", 0>>)>>,
           <<Call("group", <<Str(V1), Fn(G1), Opts(1), Fn(<<"cb", 1>>)>>,
                  <<Call("get", <<Str(X), Fn(G2), Fn(H4)>>, <<>>),
                    Call("post", <<Str(Slash), Fn(H2)>>, <<>>)>>),
             Call("get", <<Str(Public), Fn(H3)>>, <<>>)>>)>>,
    <<Call("group", <<Str(Slash), Fn(<<"cb", 0>>)>>,
           <<Call("group", <<Str(ApiBase \o Slash), Fn(AuthMw), Fn(<<"cb", 1>>)>>,
                  <<Call("group", <<Str(V1), Fn(G1), Fn(<<"cb", 2>>)>>,
                         <<Call("get", <<Str(X \o Slash), Fn(G2), Fn(H4)>>, <<>>)>>)>>)>>)>>,
    <<Call("errorHandler", <<Fn(Eh1)>>, <<>>), Call("get", <<Str(X), Fn(H1)>>, <<>>),
      Call("errorHandler", <<Fn(G1)>>, <<>>)>>,
    <<Call("get", <<Str(X), Fn(G1), Fn(H1)>>, <<>>),
      Call("try", <<>>, <<Call("errorHandler", <<Fn(H2)>>, <<>>)>>),
      Call("try", <<>>, <<Call("errorHandler", <<Opts(1)>>, <<>>)>>),
      Call("errorHandler", <<Fn(Eh1)>>, <<>>)>>,
    <<Call("use", <<Fn(G1)>>, <<>>), Call("get", <<Str(X), Fn(H1)>>, <<>>),
      Call("try", <<>>, <<Call("group", <<Str(ApiBase), Fn(AuthMw), Opts(1)>>, <<>>)>>),
      Call("try", <<>>, <<Call("group", <<Str(ApiBase)>>, <<>>)>>),
      Call("get", <<Str(Public), Fn(H2)>>, <<>>)>>,
    <<Call("try", <<>>, <<Call("group", <<Str(ApiBase), Fn(<<"cb", 0>>)>>,
                               <<Call("get", <<Str(X), Fn(H1)>>, <<>>),
                                 Call("get", <<Str(Public)>>, <<>>)>>)>>),
      Call("get", <<Str(Public), Fn(H2)>>, <<>>)>>,
    <<Call("try", <<>>, <<Call("group", <<Str(ApiBase), Fn(AuthMw), Fn(<<"cb", 0>>)>>,
                               <<Call("group", <<Str(V1)>>, <<>>)>>)>>),
      Call("get", <<Str(Public), Fn(H2)>>, <<>>)>>,
    <<Call("group", <<Str(ApiBase), Fn(AuthMw), Fn(<<"cb", 0>>)>>,
           <<Call("get", <<Str(X), Fn(H1)>>, <<>>)>>),
      Call("get", <<Str(Public), Fn(H2)>>, <<>>),
      Call("use", <<Str(Widgets), RouterArg>>, <<>>)>>,
    <<Call("get", <<Str(ApiBase \o Public), Fn(H2)>>, <<>>),
      Call("group", <<Str(ApiBase), Fn(GroupMw), Fn(<<"cb", 0>>)>>,
           <<Call("get", <<Str(X), Fn(H1)>>, <<>>),
             Call("group", <<Str(V1), Fn(<<"cb", 1>>)>>,
                  <<Call("get", <<Str(Slash), Fn(H3)>>, <<>>)>>)>>)>>,
    <<Call("get", <<Str(ApiBase \o Public), Fn(H2)>>, <<>>),
      Call("group", <<Str(ApiBase), Fn(GroupMw), Fn(<<"cb", 0>>)>>,
           <<Call("use", <<RouterArg>>, <<>>)>>)>>,
    <<Call("use", <<Str(Widgets), RouterArg>>, <<>>),
      Call("router", <<>>, <<Call("get", <<Str(V1 \o X), Fn(W3)>>, <<>>)>>),
      Call("router", <<>>, <<Call("use", <<Fn(RM2)>>, <<>>)>>)>>,
    <<Call("router", <<>>, <<Call("get", <<Str(V1 \o X), Fn(W3)>>, <<>>)>>),
      Call("router", <<>>, <<Call("use", <<Fn(RM2)>>, <<>>)>>),
      Call("use", <<Str(Widgets), RouterArg>>, <<>>)>>,
    <<Call("use", <<Str(Widgets), RouterArg>>, <<>>),
      Call("use", <<Str(Widgets), RouterArg>>, <<>>)>>,
    <<Call("get", <<Str(Widgets \o <<"/", ":id">>), Fn(W2)>>, <<>>),
      Call("use", <<Str(Widgets), RouterArg>>, <<>>)>> }

\* the urls requested of the registered application
RegUrls ==
  { Slash, UsersActive, <<"/", "users", "/", "42">>, X, ApiBase \o X, ApiBase \o X \o Slash,
    Widgets, Widgets \o Slash, Widgets \o <<"/", "7">>, Widgets \o <<"/", "/">>,
    Widgets \o <<"-old">>, Public, Public \o Slash, Slash \o Slash,
    CPlus, CPlus \o Slash, <<"/", "c", "c">>, <<"/", "users", "/", "42", "/">>,
    ApiBase \o V1 \o X, ApiBase \o V1, ApiBase \o Public,
    ApiBase \o <<"-old">>, ApiBase \o <<"/", "7">>, Widgets \o V1 \o X }

\* a new application runs one startup script, then serves one GET request
InitReg ==
  /\ middlewares = <<>>
  /\ routes = <<>>
  /\ errorHandlers = <<>>
  /\ groupStack = <<>>
  /\ router = SubRouter
  /\ notFoundHandler = Null
  /\ corsOptions \in { CorsPolicy(FALSE, Origin(FALSE, <<Star>>), FALSE, FALSE),
                        CorsPolicy(TRUE, Origin(FALSE, <<Good>>), FALSE, FALSE) }
  /\ bodyParserOptions = DefaultBodyParserOptions
  /\ settings = DefaultSettings
  /\ program \in Programs
  /\ thrown = ""
  /\ \E u \in RegUrls, o \in {NoOrigin, Good} : req = Request("GET", u, o, "")
  /\ corsOptions.enabled = (req.origin # NoOrigin)
  /\ corsOptions.enabled => Head(program).args = <<Str(Public), Opts(1), Fn(H1)>>
                              \/ Head(program).args = <<Str(Public), Opts(0), Fn(H1)>>
  /\ pc = "setup"
  /\ Idle

NextReg ==
  \/ CallRoute
  \/ CallUse(router)
  \/ CallGroup(router)
  \/ CallErrorHandler
  \/ CallTry(router)
  \/ CallRouter
  \/ Listen
  \/ NextRequest(RegUrls)
  \/ Begin
  \/ AfterBody
  \/ WalkStep
  \/ WalkCatch
  \/ \E c \in 1..Len(chains) : ChainSettle(c)
  \/ \E T \in tasks : Resume(T)

SpecReg == InitReg /\ [][NextReg]_vars

\* ------------------------------------------------------- mounted uploads
\* const uploads = Router(); uploads.post('/', w1), with the constructor's
\* body options or after uploads.json({limit: 1})
UploadRouters ==
  { [routes |-> RouteCall(App(<<>>, <<>>), DefaultSettings, "post",
                          <<Str(Slash), Fn(<<"w", 1>>)>>).routes,
     middlewares |-> <<>>,
     groupStack |-> <<>>,
     bodyParserOptions |-> o] :
      o \in { DefaultBodyParserOptions,
              BodyParserOptions(Label(1, "num"), TRUE, Label(10, "mb"), Label(10, "mb")) } }

\* an application with its body limits set registers a POST route of its
\* own and mounts the uploads router, then serves one POST request
InitMount ==
  /\ middlewares = <<>>
  /\ routes = <<>>
  /\ errorHandlers = <<>>
  /\ groupStack = <<>>
  /\ router \in UploadRouters
  /\ notFoundHandler = Null
  /\ corsOptions = CorsPolicy(FALSE, Origin(FALSE, <<Star>>), FALSE, FALSE)
  /\ bodyParserOptions \in BodyConfigs
  /\ settings = DefaultSettings
  /\ program = <<Call("errorHandler", <<Fn(Eh1)>>, <<>>),
                 Call("post", <<Str(X), Fn(H1)>>, <<>>),
                 Call("use", <<Str(Widgets), RouterArg>>, <<>>)>>
  /\ thrown = ""
  /\ \E u \in {X, Widgets}, c \in {"application/json", "text/plain"} :
       req = [Request("POST", u, NoOrigin, c) EXCEPT !.text = ObjText]
  /\ pc = "setup"
  /\ Idle

NextMount ==
  \/ CallRoute
  \/ CallUse(router)
  \/ CallErrorHandler
  \/ Listen
  \/ Begin
  \/ Data
  \/ EndOfBody
  \/ AfterBody
  \/ WalkStep
  \/ WalkCatch
  \/ \E c \in 1..Len(chains) : ChainSettle(c)
  \/ \E T \in tasks : Resume(T)

SpecMount == InitMount /\ [][NextMount]_vars

\* -------------------------------------------------------- response headers
\* the depth at which the engine throws "Maximum call stack size exceeded"
MaxStack == 6

HeaderNames == {"X-A", "X-B"}
HeaderValues == {"1", "2"}

\* everything but the response and the method it is running
untouched ==
  <<served, registry, req, route, parse, pc, pos, wp, chains, tasks, requrl,
    log, ehLog, ehCont, contErr, delivered, raised, caught, late, unhandled>>

\* res.setHeader(name, value): the transport's setHeader replaces the header
SetHeader(name, value) ==
  /\ pc = "handler"
  /\ call.outcome # "running"
  /\ res' = [res EXCEPT !.headers = {h \in @ : h[1] # name} \cup {<<name, value>>}]
  /\ UNCHANGED <<call, validation, untouched>>

\* the handler calls res.removeHeader(name)
CallRemoveHeader(name) ==
  /\ pc = "handler"
  /\ call.outcome # "running"
  /\ call' = [name |-> name, depth |-> 1, outcome |-> "running"]
  /\ UNCHANGED <<res, validation, untouched>>

\* the body of res.removeHeader: its first statement calls res.removeHeader,
\* which is this function, so a frame is pushed until the engine throws a
\* RangeError from the deepest frame; no frame catches it, and the
\* statement "return res" is never reached
RemoveHeader ==
  /\ call.outcome = "running"
  /\ call' = IF call.depth < MaxStack
               THEN [call EXCEPT !.depth = @ + 1]
               ELSE [call EXCEPT !.depth = 0, !.outcome = "threw"]
  /\ UNCHANGED <<res, validation, untouched>>

\* a handler holds the enhanced response of a request and sets and removes
\* headers before it writes
InitRes ==
  /\ middlewares = <<>>
  /\ errorHandlers = <<>>
  /\ groupStack = <<>>
  /\ router = SubRouter
  /\ notFoundHandler = Null
  /\ corsOptions = CorsPolicy(FALSE, Origin(FALSE, <<Star>>), FALSE, FALSE)
  /\ bodyParserOptions = DefaultBodyParserOptions
  /\ routes = <<RouteWith(0)>>
  /\ settings = DefaultSettings
  /\ program = <<>>
  /\ thrown = ""
  /\ req = Request("GET", UrlA, NoOrigin, "")
  /\ pc = "handler"
  /\ Idle

NextRes ==
  \/ \E n \in HeaderNames, v \in HeaderValues : SetHeader(n, v)
  \/ \E n \in HeaderNames : CallRemoveHeader(n)
  \/ RemoveHeader

SpecRes == InitRes /\ [][NextRes]_vars

\* -------------------------------------------------------------- validation
\* the values of a field: undefined (no such property), null, '', 'bob', 25, -1
Undefined == "undefined"
FieldValues == {Undefined, "null", "''", "'bob'", "25", "-1"}
TypeOf(v) ==
  CASE v = Undefined -> "undefined"
    [] v = "null" -> "object"
    [] v \in {"''", "'bob'"} -> "string"
    [] OTHER -> "number"

\* value <= 0 after the conversion of value to a number: null and '' are 0,
\* 'bob' is NaN
AtMostZero(v) == v \in {"null", "''", "-1"}

\* validators.required(), optional(), string(), number(), positive() applied
\* to a value: the type of the error returned, or "" for null
Validator(name, value) ==
  CASE name = "required" -> IF value \in {Undefined, "null", "''"} THEN "required" ELSE ""
    [] name = "optional" -> ""
    [] name = "string" -> IF value # Undefined /\ TypeOf(value) # "string" THEN "string" ELSE ""
    [] name = "number" -> IF value # Undefined /\ TypeOf(value) # "number" THEN "number" ELSE ""
    [] name = "positive" -> IF value # Undefined /\ AtMostZero(value) THEN "positive" ELSE ""

\* the default message of each validator
Message(type) ==
  CASE type = "required" -> "Field is required"
    [] type = "string" -> "Field must be a string"
    [] type = "number" -> "Field must be a number"
    [] type = "positive" -> "Field must be positive"

FieldError(field, type) == [field |-> field, message |-> Message(type), type |-> type]

\* the inner loop of Schema.validate: the error of the first validator that
\* returns one, as a list of zero or one element
RECURSIVE FirstError(_, _, _)
FirstError(validators, value, field) ==
  IF validators = <<>> THEN <<>>
  ELSE IF Validator(Head(validators), value) # ""
    THEN <<FieldError(field, Validator(Head(validators), value))>>
  ELSE FirstError(Tail(validators), value, field)

\* the outer loop of Schema.validate over the entries of the rules
RECURSIVE FieldErrors(_, _)
FieldErrors(rules, data) ==
  IF rules = <<>> THEN <<>>
  ELSE FirstError(Head(rules).validators, data.props[Head(rules).field], Head(rules).field)
         \o FieldErrors(Tail(rules), data)

\* schema.validate(data): data[field] throws a TypeError when data is null;
\* a string has no property of these names
SchemaValidate(rules, data) ==
  IF data.kind = "null" /\ rules # <<>>
    THEN [threw |-> "TypeError", errors |-> <<>>]
  ELSE LET d == IF data.kind = "object" THEN data
                ELSE [data EXCEPT !.props = [f \in DOMAIN data.props |-> Undefined]]
           errors == FieldErrors(rules, d)
       IN [threw |-> IF errors = <<>> THEN "" ELSE "ValidationError", errors |-> errors]

ValidateMw == <<"validate", 0>>

\* everything but the response, the log, the position and the validation
unvalidated ==
  <<call, served, registry, req, route, parse, pos, wp, chains, tasks, requrl,
    ehLog, ehCont, contErr, delivered, raised, caught, late, unhandled>>

\* the middleware returned by validate(schema), called as the route
\* middleware of the request: next() when schema.validate returns, the 400
\* response when it throws a ValidationError, the error thrown again
\* otherwise
Validate ==
  /\ pc = "routeMw"
  /\ LET r == SchemaValidate(validation.schema, validation.body)
     IN /\ validation' = [validation EXCEPT
                            !.next = IF r.threw = "" THEN @ + 1 ELSE @,
                            !.errors = r.errors,
                            !.threw = IF r.threw = "TypeError" THEN r.threw ELSE ""]
        /\ res' = IF r.threw = "ValidationError" THEN Json(Cur, 400, ValidateMw).m.res ELSE res
        /\ pc' = CASE r.threw = "" -> "handler"
                   [] r.threw = "ValidationError" -> "waiting"
                   [] OTHER -> "caught"
  /\ log' = Append(log, ValidateMw)
  /\ UNCHANGED unvalidated

\* the promise of the middleware was resolved by next(): route.handler is
\* called
ValidatedHandler ==
  /\ pc = "handler"
  /\ log' = Append(log, route.handler)
  /\ pc' = "done"
  /\ UNCHANGED <<res, validation, unvalidated>>

\* the middleware threw: the catch of _handleRequest runs the error handlers,
\* of which there is none, so the default 500 is sent
ValidateCatch ==
  /\ pc = "caught"
  /\ res' = Json(Cur, 500, Default500).m.res
  /\ pc' = "done"
  /\ UNCHANGED <<log, validation, unvalidated>>

Fields == {"name", "age"}

\* { name: [required(), string()], age: [optional(), number(), positive()] },
\* { age: [required(), positive()], name: [string()] }, { name: [required()] }
Schemas ==
  { << [field |-> "name", validators |-> <<"required", "string">>],
       [field |-> "age", validators |-> <<"optional", "number", "positive">>] >>,
    << [field |-> "age", validators |-> <<"required", "positive">>],
       [field |-> "name", validators |-> <<"string">>] >>,
    << [field |-> "name", validators |-> <<"required">>] >> }

\* req.body after _parseBody: an object, or with json.strict off the value
\* of the JSON texts null and "bob"
ParsedBodies ==
  { [kind |-> "object", props |-> p] : p \in [Fields -> FieldValues] }
    \cup { [kind |-> k, props |-> [f \in Fields |-> Undefined]] : k \in {"null", "string"} }

\* a POST whose body was parsed reaches the route middleware validate(schema)
InitValidate ==
  /\ middlewares = <<>>
  /\ errorHandlers = <<>>
  /\ groupStack = <<>>
  /\ router = SubRouter
  /\ notFoundHandler = Null
  /\ corsOptions = CorsPolicy(FALSE, Origin(FALSE, <<Star>>), FALSE, FALSE)
  /\ \E strict \in BOOLEAN :
       bodyParserOptions = BodyParserOptions(Label(10, "mb"), strict, Label(10, "mb"), Label(10, "mb"))
  /\ routes = <<RouteWith(0)>>
  /\ settings = DefaultSettings
  /\ program = <<>>
  /\ thrown = ""
  /\ req = Request("POST", UrlA, NoOrigin, "application/json")
  /\ pc = "routeMw"
  /\ route = Matched(RouteWith(0), {}, UrlA, FALSE)
  /\ res = FreshResponse
  /\ parse = [state |-> "resolved", size |-> 0, raw |-> 0, chunks |-> 0,
              limitExceeded |-> FALSE, listeners |-> "none", ended |-> FALSE, err |-> NoErr]
  /\ pos = Pos("route", 1)
  /\ wp = [step |-> 0, state |-> "none", err |-> NoErr]
  /\ chains = <<>>
  /\ tasks = {}
  /\ requrl = req.url
  /\ log = <<>>
  /\ ehLog = <<>> /\ ehCont = {} /\ contErr = {} /\ delivered = {}
  /\ raised = {} /\ caught = {} /\ late = {} /\ unhandled = FALSE
  /\ call = NoCall
  /\ served = 0
  /\ \E schema \in Schemas, body \in ParsedBodies :
       /\ validation = [NoValidation EXCEPT !.schema = schema, !.body = body]
       /\ body.kind # "object" => ~bodyParserOptions.json.strict

NextValidate ==
  \/ Validate
  \/ ValidatedHandler
  \/ ValidateCatch

SpecValidate == InitValidate /\ [][NextValidate]_vars

\* ----------------------------------------------------------- query requests
\* the longest value drawn character by character
MaxValueLen == 3

QChars == {"0", "5", ".", "b"}
QValues == UNION { [1..k -> QChars] : k \in 0..MaxValueLen }

\* ?age=25&active=true&name=bob
ExampleSearch ==
  <<"age", "=", "2", "5", "&", "active", "=">> \o TrueText \o <<"&", "name", "=", "b", "o", "b">>

\* the query strings: q=<value> for every value; the example; a price; false
\* and TRUE; a key given twice; a key without "="; "?" alone; "&&"
Searches ==
  { <<"q", "=">> \o v : v \in QValues }
    \cup { ExampleSearch,
           <<"price", "=", "1", "9", ".", "9", "9">>,
           <<"a", "=">> \o FalseText \o <<"&", "b", "=", "T", "R", "U", "E">>,
           <<"q", "=", "5", "&", "q", "=", "b">>,
           <<"q", "=", "b", "&", "q", "=", "5", ".", "5", "0">>,
           <<"flag">>,
           <<>>,
           <<"&", "&", "q", "=", "-", "5">> }

\* GET /a?<search> and GET /a on an application with one global middleware
\* and a route
InitQuery ==
  /\ middlewares = <<[path |-> NullPath, handler |-> G1]>>
  /\ errorHandlers = <<>>
  /\ groupStack = <<>>
  /\ router = SubRouter
  /\ notFoundHandler = Null
  /\ corsOptions = CorsPolicy(FALSE, Origin(FALSE, <<Star>>), FALSE, FALSE)
  /\ bodyParserOptions = DefaultBodyParserOptions
  /\ routes = <<RouteWith(0)>>
  /\ settings = DefaultSettings
  /\ req \in { Request("GET", UrlA \o <<"?">> \o t, NoOrigin, "") : t \in Searches }
               \cup { Request("GET", UrlA, NoOrigin, "") }
  /\ Arrived

NextQuery ==
  \/ Begin
  \/ AfterBody
  \/ WalkStep
  \/ WalkCatch
  \/ \E c \in 1..Len(chains) : ChainSettle(c)
  \/ \E T \in tasks : Resume(T)

SpecQuery == InitQuery /\ [][NextQuery]_vars

\* --------------------------------------------------------------- properties
IsPrefix(s, t) == Len(s) <= Len(t) /\ \A k \in 1..Len(s) : s[k] = t[k]

\* some handler of the chain c was called with the error e
HandlerRan(h, c, e) ==
  \E k \in 1..Len(ehLog) : ehLog[k].h = h /\ ehLog[k].chain = c /\ ehLog[k].err = e

\* C1: when a middleware calls its continuation with an error, the
\* error-handler chain is run with that error and no later middleware or
\* handler of the walk is invoked: the invocation log stays as long as it was
\* when the continuation was called.
C1_WalkStopsOnError ==
  \A c \in contErr :
    /\ UserErr(c.ent) \in delivered
    /\ Len(log) = c.at

\* C2: with two error handlers registered, the second does not run when the
\* first calls its continuation with no error, and runs with the error the
\* first hands on when the first calls its continuation with an error.
C2_ErrorChainOrdering ==
  \A e \in ehCont :
    (e.h = 1 /\ Len(errorHandlers) = 2) =>
      /\ ~e.withErr => ~\E k \in 1..Len(ehLog) : ehLog[k].h = 2 /\ ehLog[k].chain = e.chain
      /\ e.withErr => HandlerRan(2, e.chain, e.arg)

\* every registered handler of the chain c has passed control on
Exhausted(c) == chains[c].idx > Len(errorHandlers)

\* C3: when an error reaches the error-handler chain and no handler is
\* registered, or every registered handler passes control on without sending,
\* a default 500 response is sent: once the chain has finished, the request
\* has a response.
C3_DefaultResponse ==
  \A c \in 1..Len(chains) :
    (/\ chains[c].state = "settled"
     /\ Len(errorHandlers) = 0 \/ Exhausted(c))
      => res.headersSent


\* the walk's catch has the error e in hand
CatchPending(e) == pc = "walk" /\ wp.state = "rejected" /\ wp.err = e

\* C4: every error raised by a global middleware, a route middleware or the
\* route handler, by a synchronous throw or a rejected promise and whenever
\* in the request it occurs, is delivered to the error-handler chain (or is
\* on its way there, in the walk's catch).
C4_EveryErrorDelivered ==
  \A r \in raised : r.err \in delivered \/ CatchPending(r.err)

\* C5: once the response has been sent, no stage or helper executes a further
\* body-producing operation: no res.json/send passes its guard and reaches
\* the transport, and no res.end is issued, after the headers were sent.
C5_SingleTerminalWrite == late = {}

\* the CORS stage answered the request with 403
OriginRefused == \E k \in 1..Len(res.writes) : res.writes[k].by = Cors403

\* the body stage has listened to the request's stream
BodyRead == req.method \notin BodylessMethods /\ parse.state # "idle"

\* C6: with strictOrigin and a request Origin that matches no configured
\* origin, the request is answered 403 and no further stage runs: the body is
\* not read, no middleware, handler or not-found handler is invoked, and the
\* error-handler chain is not run.
C6_StrictOriginShortCircuit ==
  /\ (pc # "start" /\ RequestCors(route).enabled /\ OriginForbidden(req, RequestCors(route)))
       => OriginRefused
  /\ OriginRefused =>
       /\ res.writes = <<Write(403, Cors403)>>
       /\ ~BodyRead
       /\ log = <<>>
       /\ delivered = {}

\* the entries the walk owes this request, in order: the global middleware
\* whose path is null or a prefix of the url, the route's middleware, then
\* the handler (the not-found handler when no route matched)
RECURSIVE Applicable(_)
Applicable(i) ==
  IF i > Len(middlewares) THEN <<>>
  ELSE IF middlewares[i].path.isNull \/ StartsWith(req.url, middlewares[i].path.s)
    THEN <<middlewares[i].handler>> \o Applicable(i + 1)
  ELSE Applicable(i + 1)

Expected ==
  Applicable(1) \o
    (IF route.found THEN route.middlewares \o <<route.handler>>
     ELSE IF notFoundHandler # Null THEN <<<<"nf", 0>>>>
     ELSE <<>>)

C8_NoOverlap ==
  \A T \in tasks : T.kind = "mw" => T.step = wp.step

\* C9: a body of limit + 1 bytes is answered 413, its error carrying the code
\* PAYLOAD_TOO_LARGE, and neither middleware, handler nor the error-handler
\* chain is invoked; a body of exactly limit bytes is accepted.
C9_BodyLimit ==
  req.method \notin BodylessMethods =>
    /\ (parse.size = Limit + 1 /\ pc = "done") =>
         /\ res.writes = <<Write(413, TooLarge413)>>
         /\ parse.err.code = "PAYLOAD_TOO_LARGE"
         /\ log = <<>>
         /\ delivered = {}
    /\ (parse.size = Limit /\ parse.state \notin {"idle", "reading"}) =>
         ~parse.limitExceeded

CorsHeaders == { h[1] : h \in res.headers }

\* C10: with app-level CORS enabled every OPTIONS request ends in the CORS
\* stage: body parsing, middleware, handler, not-found handler and error
\* handlers never run, and for an accepted origin the answer is 204 with an
\* empty body and the Allow-Methods, Allow-Headers and Max-Age headers.
C10_Preflight ==
  (req.method = "OPTIONS" /\ corsOptions.enabled /\ pc # "start") =>
    /\ pc = "done"
    /\ parse.state = "idle"
    /\ log = <<>>
    /\ delivered = {}
    /\ tasks = {}
    /\ ~OriginForbidden(req, corsOptions) =>
         /\ res.writes = <<Write(204, Cors204)>>
         /\ res.writes[1].body = EmptyBody
         /\ {"Access-Control-Allow-Methods", "Access-Control-Allow-Headers",
             "Access-Control-Max-Age"} \subseteq CorsHeaders

C10_Witness ==
  /\ req.method = "OPTIONS"
  /\ corsOptions.enabled
  /\ corsOptions.strictOrigin
  /\ req.origin = Good
  /\ pc = "done"
  /\ res.statusCode = 204


\* the responses the framework writes itself to report a failure
FailureTags == {Cors403, TooLarge413, Default500, Default404}

\* C17: every failure response the framework produces itself (default 404,
\* default 500, 413, 403 origin forbidden) has a JSON body in the envelope
\* {success: false, error: {code, message}}: success is false, error is an
\* object, and it carries a code.
C17_ErrorEnvelope ==
  \A k \in 1..Len(res.writes) :
    res.writes[k].by \in FailureTags =>
      /\ res.writes[k].body.kind = "json"
      /\ res.writes[k].body.success = "false"
      /\ res.writes[k].body.errorIsObject
      /\ res.writes[k].body.code # ""

Invoked(ent) == \E k \in 1..Len(log) : log[k] = ent

\* C18: when no route matches, the applicable global middleware run first and
\* then, if no response was sent, exactly one of two things happens: the
\* registered not-found handler is invoked, or, when none is registered, the
\* default 404 is sent; no route middleware or route handler is invoked.
C18_NotFound ==
  ~route.found =>
    /\ \A k \in 1..Len(log) : log[k][1] \in {"g", "nf"}
    /\ Invoked(<<"nf", 0>>) =>
         /\ notFoundHandler # Null
         /\ log = Applicable(1) \o <<<<"nf", 0>>>>
    /\ (\E k \in 1..Len(res.writes) : res.writes[k].by = Default404) =>
         /\ notFoundHandler = Null
         /\ log = Applicable(1)
         /\ res.writes = <<Write(404, Default404)>>
    /\ (pc = "done" /\ parse.state = "resolved" /\ caught = {} /\ chains = <<>>) =>
         \/ res.headersSent
         \/ Invoked(<<"nf", 0>>)

C18_Witness ==
  /\ ~route.found
  /\ Len(middlewares) = 2
  /\ Len(Applicable(1)) = 1
  /\ notFoundHandler = Null
  /\ res.writes = <<Write(404, Default404)>>


\* the positions of '*' in a policy entry
Stars(entry) == { k \in 1..Len(entry) : entry[k] = "*" }

\* an origin is accepted by an entry with at most one '*': the entry is "*",
\* the two are equal, or the origin starts with what precedes the '*' and
\* ends with what follows it
Accepts(entry, origin) ==
  \/ entry = Star
  \/ origin = entry
  \/ /\ Cardinality(Stars(entry)) = 1
     /\ LET i == CHOOSE k \in Stars(entry) : TRUE
            n == Len(entry) - i
        IN /\ Len(origin) >= Len(entry) - 1
           /\ SubSeq(origin, 1, i - 1) = SubSeq(entry, 1, i - 1)
           /\ SubSeq(origin, Len(origin) - n + 1, Len(origin)) = SubSeq(entry, i + 1, Len(entry))

\* C15: under strictOrigin a request origin is refused with 403 exactly when
\* no entry of the policy accepts it, an entry accepting an origin that equals
\* it, any origin when it is "*", and with one '*' any origin that matches it
\* with '*' any string and '.' literal; "https://*.example.com" accepts
\* https://api.example.com and refuses https://example.com.
C15_OriginMatching ==
  (pc # "start" /\ corsOptions.enabled /\ corsOptions.strictOrigin /\ req.origin # NoOrigin) =>
    /\ OriginRefused <=>
         ~\E i \in 1..Len(corsOptions.origin.list) :
             Accepts(corsOptions.origin.list[i], req.origin)
    /\ corsOptions.origin = Origin(FALSE, <<Wild>>) =>
         /\ req.origin = Api => ~OriginRefused
         /\ req.origin = Bare => res.writes[1] = Write(403, Cors403)

C15_Witness ==
  /\ corsOptions.strictOrigin
  /\ corsOptions.origin = Origin(FALSE, <<Wild>>)
  /\ req.origin = Bare
  /\ OriginRefused

\* the remote address a is in the trusted-proxy set the settings configure
Trusted(a) ==
  \/ settings.trustProxy.kind = "true"
  \/ settings.trustProxy.kind = "loopback" /\ a \in {Loopback, Loopback6}
  \/ /\ settings.trustProxy.kind \in {"string", "array", "function"}
     /\ \E k \in 1..Len(settings.trustProxy.list) : settings.trustProxy.list[k] = a

\* the addresses a forwarded header names, left to right
Forwarded(h) ==
  IF ~h.present THEN <<>>
  ELSE SelectSeq([i \in 1..Len(h.entries) |-> Trim(h.entries[i])], LAMBDA e : e # <<>>)

\* req.ip and req.ips as derived from the remote address alone
FromRemote ==
  /\ req.ip.raw = IF req.remoteAddress = NoAddr THEN NullAddr ELSE req.remoteAddress
  /\ req.ip = WithDisplay(ParseIp(req.remoteAddress))
  /\ req.ips = <<req.remoteAddress>>

\* C16: X-Forwarded-For influences the client address only when the remote
\* address is in the trusted-proxy set. From an untrusted remote address
\* (the default trust proxy = false included) req.ip and req.ips are derived
\* from the remote address, and the same request with any other forwarded
\* header gets the same req.ip and req.ips; from a trusted one req.ip is the
\* left-most forwarded address and req.ips the whole chain.
C16_ForwardedForTrust ==
  pc # "start" =>
    /\ ~Trusted(req.remoteAddress) =>
         /\ FromRemote
         /\ \A h \in ForwardedHeaders :
              LET other == EnhanceRequest([req EXCEPT !.forwardedFor = h], settings)
              IN other.ip = req.ip /\ other.ips = req.ips
    /\ (Trusted(req.remoteAddress) /\ Forwarded(req.forwardedFor) # <<>>) =>
         /\ req.ip.raw = Forwarded(req.forwardedFor)[1]
         /\ req.ips = Forwarded(req.forwardedFor)
    /\ Forwarded(req.forwardedFor) = <<>> => FromRemote

\* a request carrying a forwarded chain from a remote address outside the
\* configured set has been enhanced
C16_Witness ==
  /\ pc # "start"
  /\ settings.trustProxy.kind = "array"
  /\ req.remoteAddress = Remote
  /\ Len(Forwarded(req.forwardedFor)) = 2
  /\ req.ips = <<Remote>>

\* _findRoute has run for the request
LookedUp == pc \notin {"setup", "crashed", "start"}

\* the routes whose method is the request's or ALL and whose pattern matches
\* the whole pathname s
Candidates(s) ==
  { i \in 1..Len(routes) : MethodMatches(routes[i], req.method) /\ Match(routes[i].pattern, s) }

\* the routes registered under exactly the path s that allow a trailing slash
\* and whose pattern matches s
SlashCandidates(s) ==
  { i \in Candidates(s) : routes[i].path = s /\ routes[i].allowTrailingSlash }

\* the lookup returned the i-th registered route
Returned(i) ==
  /\ route.found
  /\ route.method = routes[i].method
  /\ route.path = routes[i].path
  /\ route.handler = routes[i].handler
  /\ route.middlewares = routes[i].middlewares

First(S) == CHOOSE i \in S : \A j \in S : i <= j

\* C11 as stated: the lookup returns the first route in registration order
\* (mounted routes at their mount position) whose method is the request's or
\* ALL and whose pattern matches the whole pathname, and no route otherwise.
C11_FirstMatchOnly ==
  LookedUp =>
    IF Candidates(Pathname(req.url)) # {}
      THEN Returned(First(Candidates(Pathname(req.url))))
      ELSE ~route.found

\* C11, amended: the lookup returns the first route in registration order
\* whose method is the request's or ALL and whose pattern matches the whole
\* pathname; when there is none and the pathname ends with a slash, it returns
\* the first route registered under the pathname without that slash that
\* allows a trailing slash and matches it; otherwise no route. With /users/:id
\* registered before /users/active, /users/active goes to /users/:id with
\* id = "active".
C11_FirstMatch ==
  LookedUp =>
    LET s == Pathname(req.url)
        clean == DropLast(s)
    IN /\ IF Candidates(s) # {}
            THEN Returned(First(Candidates(s))) /\ route.matchedPath = s
          ELSE IF EndsWithSlash(s) /\ Len(s) > 1 /\ SlashCandidates(clean) # {}
            THEN Returned(First(SlashCandidates(clean))) /\ route.wasTrailingSlash
          ELSE ~route.found
       /\ (/\ Len(routes) = 2
           /\ routes[1].path = UsersId
           /\ routes[2].path = UsersActive
           /\ s = UsersActive)
            => route.handler = H1 /\ route.params = {<<":id", <<"active">>>>}

\* /users/:id was registered before /users/active and a request to
\* /users/active has been looked up
C11_Witness ==
  /\ LookedUp
  /\ Len(routes) = 2
  /\ routes[1].path = UsersId
  /\ routes[2].path = UsersActive
  /\ Pathname(req.url) = UsersActive
  /\ route.handler = H1

InLog(f) == \E k \in 1..Len(log) : log[k] = f
Wrote(f) == \E k \in 1..Len(res.writes) : res.writes[k].by = f

\* the i-th route is the one group('/api', authMw, cb) registered when cb
\* called get('/x', handler)
GroupRoute(i) ==
  /\ routes[i].handler = H1
  /\ \E k \in 1..Len(routes[i].middlewares) : routes[i].middlewares[k] = AuthMw

\* the route is registered as GET /api/x with authMw before the handler; the
\* handler is invoked only for /api/x, and only after authMw
GroupRouteGuarded ==
  /\ \A i \in 1..Len(routes) :
       GroupRoute(i) => /\ routes[i].method = "GET"
                        /\ routes[i].path = ApiBase \o X
                        /\ routes[i].middlewares = <<AuthMw>>
  /\ (\E i \in 1..Len(routes) : GroupRoute(i)) =>
       \A k \in 1..Len(log) :
         log[k] = H1 => /\ NormalizePath(Pathname(req.url)) = ApiBase \o X
                        /\ \E j \in 1..(k - 1) : log[j] = AuthMw

\* C12: a route registered as get('/x', handler) inside
\* group('/api', authMw, cb) is reachable only at /api/x, never at /x; authMw
\* runs before handler on every request to it; and once authMw has sent a
\* response before handler was invoked, handler is never invoked (whether or
\* not authMw calls its continuation afterwards).
C12_GroupRoute ==
  [][ /\ GroupRouteGuarded'
      /\ (Wrote(AuthMw) /\ ~InLog(H1)) => ~InLog(H1)' ]_vars

\* authMw answered a request to /api/x without calling its continuation: the
\* walk waits on it for ever and the handler has not run
C12_Witness ==
  /\ \E i \in 1..Len(routes) : GroupRoute(i)
  /\ Pathname(req.url) = ApiBase \o X
  /\ InLog(AuthMw)
  /\ Wrote(AuthMw)
  /\ ~InLog(H1)
  /\ pc = "walk"
  /\ wp.state = "pending"
  /\ tasks = {}

\* the functions of the sub-router

\* the sub-router has been mounted under base
MountedAt(base) ==
  \E i \in 1..Len(routes) : routes[i].handler = W1 /\ routes[i].path = base \o Slash

\* a route of the parent registered before the mount answers the pathname s
Shadowed(s) ==
  \E i \in Candidates(s) :
    /\ routes[i].handler \notin {W1, W2}
    /\ \A j \in 1..Len(routes) : routes[j].handler = W1 => i < j

CorsOption(f) ==
  IF f = <<"opts", 0>> THEN [kind |-> "false", opts |-> <<>>]
  ELSE [kind |-> "object", opts |-> [origin |-> Origin(FALSE, <<Star>>)]]

\* the route the request matched was registered with an options object
HasOptions(r) == \E k \in 1..Len(r.middlewares) : ~IsFunction(r.middlewares[k])
OptionsOf(r) == r.middlewares[CHOOSE k \in 1..Len(r.middlewares) : ~IsFunction(r.middlewares[k])]

\* the policy the route's registration asks for
RoutePolicy ==
  IF route.found /\ HasOptions(route)
    THEN IF CorsOption(OptionsOf(route)).kind = "false"
           THEN [corsOptions EXCEPT !.enabled = FALSE]
           ELSE MergeCors(corsOptions, CorsOption(OptionsOf(route)).opts)
    ELSE corsOptions

\* C14: for a request matching a route registered with a cors option the
\* policy applied is the route's merged over the app's (none at all for
\* cors: false), the option is not a step of the route, and a request to any
\* other route gets the app's policy.
C14_RouteCors ==
  LookedUp =>
    /\ { h \in res.headers : h[1] = "Access-Control-Allow-Origin" }
         = { h \in ApplyCors(req, FreshResponse, RoutePolicy).headers :
               h[1] = "Access-Control-Allow-Origin" }
    /\ \A k \in 1..Len(log) : IsFunction(log[k])

\* the call names a path and no handler
NoHandler(c) == c.op \in RouteOps /\ Len(c.args) = 1 /\ StartsWith(c.args[1].s, Slash)

\* C19: a call of get/post/put/patch/delete/all with a path and no handler,
\* on the app or on the proxy of a group, throws at once and adds no route:
\* the startup script ends with the error and no route of that path exists.
C19_ZeroHandlers ==
  [][ (pc = "setup" /\ program # <<>>) =>
        LET c == Head(program)
        IN /\ NoHandler(c) =>
                thrown' = "Route handler is required" /\ routes' = routes
           /\ (c.op = "group" /\ \E k \in 1..Len(c.body) : NoHandler(c.body[k])) =>
                /\ thrown' = "Route handler is required"
                /\ \A k \in 1..Len(c.body) :
                     NoHandler(c.body[k]) =>
                       ~\E i \in 1..Len(routes') :
                           routes'[i].path = StripSlashes(c.args[1].s) \o c.body[k].args[1].s
    ]_vars

\* the shapes of use(): (fn), (path, fn), (subRouter), (path, subRouter),
\* (path, fn..., subRouter)
Shape(args) ==
  LET n == Len(args)
  IN IF n = 1 /\ args[1].t = "function" THEN "global"
     ELSE IF n = 2 /\ args[1].t = "string" /\ args[2].t = "function" THEN "prefix"
     ELSE IF n = 1 /\ args[1].t = "router" THEN "mountRoot"
     ELSE IF n = 2 /\ args[1].t = "string" /\ args[2].t = "router" THEN "mount"
     ELSE IF /\ n >= 3 /\ args[1].t = "string" /\ args[n].t = "router"
             /\ \A k \in 2..(n - 1) : args[k].t = "function" THEN "prefixThenMount"
     ELSE "other"

\* C20: use() is resolved by the shape of its arguments: a global middleware,
\* a middleware under a prefix, a mount, or the middleware under the prefix
\* followed by the mount; a call of any other shape throws and leaves the
\* middleware list and the route list as they were.
C20_UseShapes ==
  [][ (pc = "setup" /\ program # <<>> /\ Head(program).op = "use") =>
        LET args == Head(program).args
            n == Len(args)
            A == Application
            now == [App(routes', middlewares')
                      EXCEPT !.errorHandlers = errorHandlers', !.groupStack = groupStack',
                             !.router = router', !.threw = thrown']
        IN CASE Shape(args) = "global" -> now = PushAll(A, NullPath, args)
             [] Shape(args) = "prefix" -> now = PushAll(A, Path(args[1].s), <<args[2]>>)
             [] Shape(args) = "mountRoot" -> now = MountRouter(A, settings, Slash, router)
             [] Shape(args) = "mount" -> now = MountRouter(A, settings, args[1].s, router)
             [] Shape(args) = "prefixThenMount" ->
                  now = MountRouter(PushAll(A, Path(args[1].s), SubSeq(args, 2, n - 1)),
                                    settings, args[1].s, router)
             [] OTHER -> thrown' # "" /\ routes' = routes /\ middlewares' = middlewares
    ]_vars

\* the identity of a route, and the identities a route call registers
Identity(r) == <<r.method, r.path, r.handler>>
Registers(c) ==
  c.op \in RouteOps /\ Len(c.args) >= 2 /\ c.args[1].t \in {"string", "array"}
PathsOf(c) == IF c.args[1].t = "array" THEN c.args[1].list ELSE <<c.args[1].s>>
Identities(c) ==
  { <<MethodOf(c.op), NormalizePath(PathsOf(c)[k]), c.args[Len(c.args)].f>> :
      k \in 1..Len(PathsOf(c)) }
Known == { Identity(routes[i]) : i \in 1..Len(routes) }

\* C21: registration is idempotent on the identity (method, normalized
\* path, handler): a route call leaves the routes already registered in
\* place and appends exactly one route for each identity it names that is
\* not registered yet, whether the identity is repeated by a second call,
\* by another spelling of the path or inside an array of paths; the routes
\* of an array of paths all carry the handler of the call.
C21_Idempotent ==
  [][ (pc = "setup" /\ program # <<>> /\ Registers(Head(program))) =>
        LET c == Head(program)
            new == Identities(c) \ Known
            added == (Len(routes) + 1)..Len(routes')
        IN /\ thrown' = ""
           /\ IsPrefix(routes, routes')
           /\ Len(routes') = Len(routes) + Cardinality(new)
           /\ { Identity(routes'[k]) : k \in added } = new
           /\ \A k \in added : routes'[k].handler = c.args[Len(c.args)].f
    ]_vars

\* get(['/x', '/x/', '/public', '/x'], h3) has registered two routes
C21_Witness ==
  /\ pc = "start"
  /\ Len(routes) = 2
  /\ routes[1].path = X /\ routes[2].path = Public
  /\ routes[1].handler = H3 /\ routes[2].handler = H3

\* a path without a parameter and without "*"
Static(p) == \A k \in 1..Len(p) : p[k] \notin ParamNames /\ p[k] # "*"

\* the request is the first one the i-th route can take: it has the method
\* of the route and no earlier route matches its pathname
Reaches(i) ==
  /\ MethodMatches(routes[i], req.method)
  /\ \A j \in 1..(i - 1) : j \notin Candidates(Pathname(req.url))

\* C22: with the trailing slash allowed (the default), a request with the
\* method of a route registered under a static path p (no parameter, no "*")
\* resolves to that route when its pathname is p and when it is p + "/",
\* unless an earlier route takes the request.
C22_TrailingSlash ==
  LookedUp =>
    \A i \in 1..Len(routes) :
      ( /\ Static(routes[i].path)
        /\ routes[i].allowTrailingSlash
        /\ Reaches(i)
        /\ Pathname(req.url) \in {routes[i].path, routes[i].path \o Slash} )
        => Returned(i)

\* C23: a call of res.removeHeader(name) on the enhanced response ends by
\* returning the response, with the header of that name removed.
C23_RemoveHeader ==
  call.outcome \notin {"none", "running"} =>
    /\ call.outcome = "returned"
    /\ \A h \in res.headers : h[1] # call.name

\* the value the body has for a field, and the validators of a rule that
\* reject it
ValueOf(body, field) == IF body.kind = "object" THEN body.props[field] ELSE Undefined
Failing(rule, body) ==
  { k \in 1..Len(rule.validators) : Validator(rule.validators[k], ValueOf(body, rule.field)) # "" }
FailingRules(schema, body) == SelectSeq(schema, LAMBDA rule : Failing(rule, body) # {})

\* one {field, message, type} for each failing field, from its first
\* failing validator
ExpectedErrors(schema, body) ==
  LET failing == FailingRules(schema, body)
  IN [i \in 1..Len(failing) |->
        FieldError(failing[i].field,
                   Validator(failing[i].validators[First(Failing(failing[i], body))],
                             ValueOf(body, failing[i].field)))]

\* C24: once the middleware of validate(schema) has run, either the body
\* satisfies the schema, the continuation was called once and nothing was
\* sent, or the body fails it, the one response is a 400 written by the
\* middleware whose errors are one {field, message, type} per failing field
\* from its first failing validator, the continuation was not called and the
\* handler is not invoked.
C24_Validate ==
  (pc \in {"handler", "waiting", "caught", "done"} /\ validation.schema # <<>>) =>
    IF FailingRules(validation.schema, validation.body) = <<>>
      THEN /\ validation.next = 1
           /\ res.writes = <<>>
      ELSE /\ validation.next = 0
           /\ Len(res.writes) = 1
           /\ res.writes[1].status = 400 /\ res.writes[1].by = ValidateMw
           /\ validation.errors = ExpectedErrors(validation.schema, validation.body)
           /\ ~Invoked(route.handler)

\* the value the query string gives a key: that of its last pair
Given(key) ==
  LET pairs == SearchParams(Search(req.url))
      i == CHOOSE j \in 1..Len(pairs) :
             pairs[j][1] = key /\ \A k \in (j + 1)..Len(pairs) : pairs[k][1] # key
  IN pairs[i][2]

\* the number a string of digits writes in base ten
RECURSIVE Decimal(_)
Decimal(d) == IF d = <<>> THEN 0 ELSE DigitValue(Head(d)) * 10 ^ (Len(d) - 1) + Decimal(Tail(d))

\* q is the number written whole "." frac
IsNumber(q, whole, frac) ==
  /\ q.type = "number"
  /\ q.n = Decimal(whole)
  /\ \E zeros \in 0..Len(frac) :
       frac = q.frac \o [i \in 1..zeros |-> "0"]

Prefixed(i) == ~middlewares[i].path.isNull /\ middlewares[i].path.s # <<>>

\* the request url without the prefix of the i-th middleware, or "/"
Remainder(i) ==
  IF Substring(req.url, Len(middlewares[i].path.s)) = <<>> THEN Slash
  ELSE Substring(req.url, Len(middlewares[i].path.s))

\* C26: a global middleware registered under a prefix is invoked only when
\* the pathname starts with the prefix; while it runs, req.url is the
\* remainder after the prefix; and req.url is the original url again when the
\* promise of the middleware has settled, so before the next entry, the
\* handler or an error handler runs, whether the middleware called its
\* continuation, returned or threw.
C26_PrefixStripped ==
  /\ \A k \in 1..Len(log), i \in 1..Len(middlewares) :
       (log[k] = middlewares[i].handler /\ Prefixed(i))
         => StartsWith(Pathname(req.url), middlewares[i].path.s)
  /\ (/\ pc = "walk" /\ pos.stage = "global" /\ wp.state = "pending" /\ Prefixed(pos.i)
      /\ \E T \in tasks : T.ent = middlewares[pos.i].handler /\ T.step = wp.step
      /\ \A c \in contErr : c.ent # middlewares[pos.i].handler)
       => requrl = Remainder(pos.i)
  /\ (pc = "walk" /\ wp.state = "resolved" /\ ~res.headersSent) => requrl = req.url
  /\ (pc = "walk" /\ wp.state = "rejected" /\ ~res.headersSent /\ errorHandlers # <<>>)
       => requrl = req.url

\* an error handler of the chain c threw: the chain was rejected and not by
\* a continuation called with an error
ThrewIn(c) ==
  /\ chains[c].state \in {"rejected", "settled"}
  /\ chains[c].rej # NoErr
  /\ \A k \in ehCont : ~(k.chain = c /\ k.withErr)

\* C27: when an error handler throws while its chain runs, the chain catches
\* the throw: it sends the default 500, no later error handler of the chain
\* runs, and nothing is thrown out of the chain or of the request handling.
C27_ThrowInErrorHandler ==
  \A c \in 1..Len(chains) :
    ThrewIn(c) =>
      /\ \A k \in 1..Len(ehLog) : ehLog[k].chain = c => ehLog[k].h <= chains[c].idx
      /\ chains[c].state = "settled" =>
           /\ \E w \in 1..Len(res.writes) :
                res.writes[w].by = Default500 /\ res.writes[w].status = 500
           /\ ~unhandled

\* the body of an application/json request was read within the limit and
\* decoded
JsonDecoded ==
  /\ IsJson(req.contentType)
  /\ req.method \notin BodylessMethods
  /\ pc \notin {"start", "body"}
  /\ parse.state \in {"resolved", "rejected"}
  /\ ~parse.limitExceeded

\* the trimmed text does not start with "[" or "{"
NoBracket(text) == Trim(text) = <<>> \/ Trim(text)[1] \notin {"[", "{"}

\* malformed JSON gives no error: the body is the empty object and the
\* request goes on to the walk
Degraded ==
  /\ parse.state = "resolved" /\ parse.err = NoErr
  /\ req.body = "{}"
  /\ StrictErr \notin delivered

\* the body is refused with the decode error, which goes to the error
\* handlers; no middleware and no handler is invoked
Refused ==
  /\ parse.state = "rejected" /\ parse.err = StrictErr
  /\ pc # "afterBody" => StrictErr \in delivered
  /\ log = <<>>

\* C28 as stated: malformed JSON never gives an error, and in strict mode
\* any body whose trimmed text does not start with "[" or "{" is refused.
C28_AnyTextRefused ==
  JsonDecoded =>
    /\ ~JsonParses(req.text) => Degraded
    /\ (BodyOptions.json.strict /\ NoBracket(req.text)) => Refused

\* C28, amended: for an application/json body within the limit, malformed
\* JSON never gives an error (the body is the empty object and the request
\* proceeds), also in strict mode; in strict mode a body that parses as JSON
\* and whose trimmed text does not start with "[" or "{" is refused with a
\* decode error that goes to the error handlers, and the route handler is not
\* invoked; no other body is refused.
C28_JsonBody ==
  JsonDecoded =>
    /\ ~JsonParses(req.text) => Degraded
    /\ (BodyOptions.json.strict /\ JsonParses(req.text) /\ NoBracket(req.text)) => Refused
    /\ parse.state = "rejected" =>
         BodyOptions.json.strict /\ JsonParses(req.text) /\ NoBracket(req.text)

\* in strict mode the body " 1 " was refused and the error handlers have
\* the decode error
C28_Witness ==
  /\ JsonDecoded
  /\ BodyOptions.json.strict
  /\ req.text = PaddedNum
  /\ StrictErr \in delivered
  /\ pc = "done"

\* the CORS step of _handleRequest has acted on the response: the
\* Access-Control-Allow-Origin header is set, or the origin was refused
CorsComputed ==
  \/ <<"Access-Control-Allow-Origin", FinalOrigin(req.origin, RequestCors(route).origin)>>
        \in res.headers
  \/ (res.writes # <<>> /\ res.writes[1] = Write(403, Cors403))

\* _parseBody is done with the whole body: every byte that arrived is
\* buffered, the size is recorded and req.body is the decoded value
BodyComplete ==
  /\ parse.state = "resolved"
  /\ ~parse.limitExceeded
  /\ req.method \notin BodylessMethods =>
       /\ parse.raw = parse.size
       /\ req.bodySize = parse.size
       /\ (parse.size = 0) = (req.text = <<>>)
       /\ req.body = DecodedBody(req.contentType, req.text)

\* C29: in every request the CORS headers are computed before the route
\* handler is invoked, and body parsing has completed or aborted before the
\* first global or route middleware is invoked: whenever a middleware, a
\* handler or the not-found handler is invoked, the state it is invoked in
\* has the CORS step done (when CORS is enabled for the request) and the
\* body wholly read and decoded; an aborted body invokes none of them.
C29_Ordering ==
  [][log' # log =>
       /\ pc \notin {"start", "body"}
       /\ BodyComplete
       /\ RequestCors(route).enabled => CorsComputed]_vars

\* the route handler of a POST has been invoked after a body of two chunks,
\* with the CORS header on the response
C29_Witness ==
  /\ req.method = "POST"
  /\ parse.chunks = 2
  /\ BodyComplete
  /\ corsOptions.enabled /\ CorsComputed /\ res.writes # <<>> /\ res.writes[1].status = 200
  /\ \E k \in 1..Len(log) : log[k] = route.handler

\* the ingestion promise has settled
Settled == parse.state \in {"resolved", "rejected"}

\* this step is the 'data' event whose chunk takes the running size over
\* the limit
Crossing == parse.size <= Limit /\ parse'.size > Limit

\* this step leaves the buffer, the decoded body and the promise as they are
Untouched ==
  /\ parse'.raw = parse.raw
  /\ parse'.size = parse.size
  /\ parse'.state = parse.state
  /\ parse'.err = parse.err
  /\ req'.body = req.body
  /\ req'.bodySize = req.bodySize

\* C30: while a body is ingested the buffered bytes never exceed the
\* resolved limit: the chunk that takes the running size over the limit is
\* not buffered, the stream listeners are detached at that moment, no later
\* chunk is buffered or parsed, and the ingestion promise settles exactly
\* once, with the size-limit error and never also with success.
C30_SizeLimit ==
  [][/\ parse'.raw <= Limit
     /\ Crossing =>
          /\ parse'.raw = parse.raw
          /\ parse.listeners = "parser" /\ parse'.listeners = "noop"
          /\ parse.state = "reading"
          /\ parse'.state = "rejected" /\ parse'.err = TooLargeErr
          /\ parse'.limitExceeded
     /\ parse.limitExceeded => Untouched /\ parse'.listeners = "noop"
     /\ Settled =>
          /\ parse'.state = parse.state /\ parse'.err = parse.err
          /\ parse.limitExceeded = (parse.err = TooLargeErr)
     /\ parse.size > Limit => parse.limitExceeded]_vars

\* the first chunk took the size over the limit, nothing of it is
\* buffered, a second chunk and the end of the stream arrived afterwards,
\* and the answer is the 413
C30_Witness ==
  /\ parse.limitExceeded
  /\ parse.size > Limit
  /\ parse.raw = 0
  /\ parse.chunks = 2
  /\ parse.ended
  /\ parse.state = "rejected" /\ parse.err = TooLargeErr
  /\ pc = "done"
  /\ res.writes = <<Write(413, TooLarge413)>>

\* the routes that answer the pathname s once its trailing slash is taken
\* off: the method is the request's or ALL, the route allows a trailing
\* slash, and its pattern matches s without the slash
Fallbacks(s) ==
  { i \in 1..Len(routes) :
      /\ MethodMatches(routes[i], req.method)
      /\ routes[i].allowTrailingSlash
      /\ Match(routes[i].pattern, DropLast(s)) }

\* C31: when a pathname ending in "/" matches no route as given and the
\* pathname without that slash matches a route that allows trailing-slash
\* normalisation, static or with :param segments (/users/42/ against
\* /users/:id), the lookup returns that route, flagged as a trailing-slash
\* match.
C31_TrailingSlashFallback ==
  LookedUp =>
    LET s == Pathname(req.url)
    IN (EndsWithSlash(s) /\ Len(s) > 1 /\ Candidates(s) = {} /\ Fallbacks(s) # {}) =>
         /\ route.found
         /\ route.wasTrailingSlash
         /\ \E i \in Fallbacks(s) : Returned(i)

\* a path without its repeated slashes and without the slashes at its end
Canon(p) == StripSlashes(CollapseSlashes(p))

\* the names of a list of argument values
Names(vs) == [i \in 1..Len(vs) |-> vs[i].f]

\* the group call c has a callback, and its callback only registers routes
\* with a path and a handler and opens groups of the same kind
RECURSIVE WellFormed(_)
WellFormed(c) ==
  /\ c.op = "group"
  /\ Len(c.args) >= 2
  /\ c.args[1].t = "string"
  /\ c.args[Len(c.args)].t = "function"
  /\ \A k \in 1..Len(c.body) :
       \/ /\ c.body[k].op \in RouteOps
          /\ Len(c.body[k].args) >= 2
          /\ c.body[k].args[1].t = "string"
          /\ c.body[k].args[Len(c.body[k].args)].t = "function"
       \/ WellFormed(c.body[k])

\* what the calls of body owe the registry, in order, under the enclosing
\* base paths (concatenated in base) and the enclosing groups' middleware
\* (outermost first in mws)
RECURSIVE Owed(_, _, _)
Owed(body, base, mws) ==
  IF body = <<>> THEN <<>>
  ELSE LET c == Head(body)
           n == Len(c.args)
           own == IF c.op = "group"
                    THEN Owed(c.body, base \o c.args[1].s,
                              mws \o Names(SelectSeq(SubSeq(c.args, 2, n - 1),
                                                      LAMBDA v : v.t = "function")))
                    ELSE <<[method |-> MethodOf(c.op),
                            path |-> base \o c.args[1].s,
                            middlewares |-> mws \o Names(SubSeq(c.args, 2, n - 1)),
                            handler |-> c.args[n].f]>>
       IN own \o Owed(Tail(body), base, mws)

\* the routes a group call of the startup script has just pushed are the
\* ones it owes
GroupRegistered ==
  LET owed == Owed(<<Head(program)>>, <<>>, <<>>)
      n == Len(routes)
  IN /\ thrown' = ""
     /\ Len(routes') = n + Len(owed)
     /\ \A k \in 1..Len(owed) :
          /\ routes'[n + k].method = owed[k].method
          /\ Canon(routes'[n + k].path) = Canon(owed[k].path)
          /\ routes'[n + k].middlewares = owed[k].middlewares
          /\ routes'[n + k].handler = owed[k].handler

\* C32: for groups nested to any depth, a route registered in the innermost
\* callback gets as its path the concatenation of all enclosing base paths
\* followed by its own path (up to repeated and trailing slashes), and as
\* its middleware list the middleware of every enclosing group from
\* outermost to innermost followed by the route's own handler-level
\* middleware, in that order.
C32_NestedGroups ==
  [][(pc = "setup" /\ program # <<>> /\ WellFormed(Head(program))) => GroupRegistered]_vars

\* the route registered three groups deep is /api/v1/x with the middleware
\* of the groups, outermost first, before its own
C32_Witness ==
  /\ pc \notin {"setup", "crashed"}
  /\ Len(routes) = 1
  /\ routes[1].path = ApiBase \o V1 \o X
  /\ routes[1].middlewares = <<AuthMw, G1, G2>>
  /\ routes[1].handler = H4
  /\ InLog(H4)

\* the server is listening
Serving == pc \notin {"setup", "crashed"}

Current == IF Head(program).op = "try" THEN Head(program).body[1] ELSE Head(program)

\* group() without a function as its last argument
NoCallback(c) ==
  c.op = "group" /\ (c.args = <<>> \/ c.args[Len(c.args)].t # "function")

\* errorHandler() with a function that does not declare 4 parameters
WrongArity(c) ==
  /\ c.op = "errorHandler"
  /\ c.args # <<>>
  /\ c.args[1].t = "function"
  /\ Arity(c.args[1].f) # 4

\* C34: group() called without a function as its last argument, and
\* errorHandler() called with a function that does not declare exactly 4
\* parameters, each throw immediately and leave the group stack, the route
\* list, the middleware list and the error-handler list unchanged.
C34_RejectedCalls ==
  [][(pc = "setup" /\ program # <<>> /\ (NoCallback(Current) \/ WrongArity(Current))) =>
       /\ UNCHANGED <<groupStack, routes, middlewares, errorHandlers>>
       /\ Head(program).op # "try" => (thrown' # "" /\ pc' = "crashed")
       /\ Head(program).op = "try" => program' = Tail(program)]_vars

\* errorHandler(g1), a function of three parameters, has ended a startup
\* script that had registered an error handler and a route
C34_Witness ==
  /\ pc = "crashed"
  /\ thrown = "errorHandler() requires (err, req, res, next)"
  /\ errorHandlers = <<Eh1>>
  /\ Len(routes) = 1
  /\ groupStack = <<>>

\* the i-th route was registered inside the callback of the group whose
\* middleware is gm: a frame of its group chain holds gm
InGroup(i) ==
  \E k \in 1..Len(routes[i].groupChain) :
    \E j \in 1..Len(routes[i].groupChain[k].middlewares) :
      routes[i].groupChain[k].middlewares[j] = GroupMw

\* C35: a group's middleware runs only for requests that resolve to a route
\* registered inside that group's callback (directly, in a nested group, or
\* through a sub-router mounted inside it); it never runs for a request that
\* resolves to a route registered outside the group or to no route at all,
\* even when the request URL shares the group's path prefix as a string.
C35_GroupScope ==
  InLog(GroupMw) => (route.found /\ \E i \in 1..Len(routes) : Returned(i) /\ InGroup(i))

\* the limit the serving application is configured with for the request's
\* content type
AppLimit == DetectLimit(req.contentType, bodyParserOptions)

\* C36: the body-size limits configured on the serving app (json(),
\* urlencoded(), multipart() or bodyParser()) are the limits enforced for
\* every request that app serves, including requests that resolve to routes
\* spliced in from a mounted sub-router: a body is refused as too large
\* exactly when its size exceeds the app's limit.
C36_AppLimits ==
  (req.method \notin BodylessMethods /\ parse.state \in {"resolved", "rejected"}) =>
    (parse.limitExceeded = (parse.size > AppLimit))

\* the sub-router's route GET /v1/x (handler w3) and middleware rm2, which the
\* startup script registers before or after the mount under /widgets
LateRoute(rs) == \E i \in 1..Len(rs) : rs[i].handler = W3
LateMw(ms) == \E j \in 1..Len(ms) : ms[j].handler = RM2

\* use(.., router) is the call at the head of the startup script
Mounting ==
  /\ pc = "setup"
  /\ program # <<>>
  /\ Head(program).op = "use"
  /\ \E k \in 1..Len(Head(program).args) : Head(program).args[k] = RouterArg

\* C37: a mount copies what the sub-router holds at that moment: each of its
\* routes and middleware is appended to the parent's lists under the mount
\* path, and GET /widgets/v1/x reaches w3 when w3 was registered before the
\* mount; a call made on the sub-router after the mount leaves the parent's
\* routes and middleware alone, so that w3 and rm2 registered then are never
\* invoked and GET /widgets/v1/x finds no route.
C37_MountCopies ==
  [][ /\ (Mounting /\ thrown' = "") =>
           /\ Len(routes') = Len(routes) + Len(router.routes)
           /\ \A k \in 1..Len(router.routes) :
                /\ routes'[Len(routes) + k].handler = router.routes[k].handler
                /\ routes'[Len(routes) + k].method = router.routes[k].method
                /\ routes'[Len(routes) + k].middlewares = router.routes[k].middlewares
                /\ \E base \in {<<>>, Widgets, ApiBase} :
                     routes'[Len(routes) + k].path = base \o router.routes[k].path
           /\ Len(middlewares') >= Len(middlewares) + Len(router.middlewares)
           /\ \A k \in 1..Len(router.middlewares) :
                middlewares'[Len(middlewares') - Len(router.middlewares) + k].handler
                  = router.middlewares[k].handler
      /\ (pc = "setup" /\ program # <<>> /\ Head(program).op = "router") =>
           /\ UNCHANGED <<routes, middlewares>>
           /\ Len(router'.routes) + Len(router'.middlewares)
                = Len(router.routes) + Len(router.middlewares) + 1
      /\ (LookedUp /\ Pathname(req.url) = Widgets \o V1 \o X)' =>
           /\ (LateRoute(routes) => route.found /\ route.handler = W3)'
           /\ (~LateRoute(routes) => ~route.found /\ ~InLog(W3))'
      /\ (InLog(RM2) => LateMw(middlewares))'
    ]_vars

\* the sub-router was mounted under /widgets and then registered w3 and rm2:
\* GET /widgets/v1/x was answered 404, by the sub-router's rm alone
C37_Witness ==
  /\ pc = "done"
  /\ MountedAt(Widgets)
  /\ LateRoute(router.routes) /\ LateMw(router.middlewares)
  /\ ~LateRoute(routes) /\ ~LateMw(middlewares)
  /\ Pathname(req.url) = Widgets \o V1 \o X
  /\ res.statusCode = 404
  /\ InLog(RM) /\ ~InLog(RM2) /\ ~InLog(W3)

\* C38: no two routes of the list have the same method, path and handler, and
\* no two entries of the middleware list hold the sub-router's middleware
\* under the same path, whatever was registered and mounted.
C38_NoDuplicates ==
  /\ \A i, j \in 1..Len(routes) : Identity(routes[i]) = Identity(routes[j]) => i = j
  /\ \A i, j \in 1..Len(middlewares) :
       (middlewares[i] = middlewares[j] /\ middlewares[i].handler \in {RM, RM2}) => i = j

\* C39: between the calls of the startup script, and afterwards, the group
\* stack is empty, whether the callback of a group() returned or threw; and
\* the routes registered outside any group (those under /public) have an empty
\* group chain.
C39_BalancedStack ==
  /\ groupStack = <<>>
  /\ \A i \in 1..Len(routes) : routes[i].path = Public => routes[i].groupChain = <<>>

\* C40: no middleware entry and no handler is invoked twice for a request:
\* the log of invocations holds each function once, also when a middleware
\* calls its continuation twice or calls it and returns a promise that
\* completes later.
C40_AtMostOnce ==
  \A i, j \in 1..Len(log) : log[i] = log[j] => i = j

\* the global middleware tg1 and the route middleware tr1, which both call
\* their continuation more than once, and the handler have run once each and
\* nothing is left to run
C40_Witness ==
  /\ pc = "done"
  /\ tasks = {}
  /\ log = << <<"tg", 1>>, <<"tr", 1>>, <<"h", 0>> >>

====
